---- MODULE Spec2Model ----
(***************************************************************************)
(* A model of the tunnel core of drip: the tunnel registry                 *)
(* (internal/server/tunnel), the response-channel handler (package proxy)  *)
(* and the batching frame writer (package protocol).                       *)
(*                                                                         *)
(* Each component is a state machine of its own specification; a           *)
(* specification leaves the variables of the other components unchanged.   *)
(***************************************************************************)
EXTENDS Integers, Sequences, FiniteSets, TLC

VARIABLES
    \* ---- tunnel.Manager / tunnel.Connection
    tunnels,     \* Manager.tunnels: subdomain -> connection id
    used,        \* Manager.used: the subdomains marked true
    conns,       \* every Connection ever created: id -> its fields
    regResult,   \* what the last Manager call returned
    \* ---- proxy.ResponseHandler
    channels,    \* ResponseHandler.channels: request id -> entry (ch, age)
    chans,       \* every reply channel ever made: id -> its state; `sent`
                 \* counts the responses delivered into it: 0, 1, or 2 for more
    snd,         \* the SendResponse calls in progress, one per caller
    sndLast,     \* "notfound" when the SendResponse call that returned last
                 \* found no entry, "none" otherwise
    stopClosed,  \* stopCh has been closed
    sweeper,     \* the cleanupLoop goroutine: "running" or "stopped"
    tickPending, \* the cleanup ticker has a tick waiting in ticker.C
    respFault,   \* the panic that ended the process, or "none"
    \* ---- protocol.FrameWriter
    queue,       \* the frames in w.queue, oldest first
    queueClosed, \* w.queue has been closed
    doneClosed,  \* w.done has been closed
    batch,       \* w.batch
    closed,      \* w.closed
    writeErr,    \* w.writeErr: "nil" or the latched error
    errOnce,     \* w.errOnce has run
    onWriteError,\* w.onWriteError is set
    cbCalls,     \* how many times the write-error handler was started
    adaptive,    \* adaptiveFlush and lowConcurrencyThreshold
    hb,          \* heartbeat fields, the loop's ticker, heartbeatControl
    wire,        \* the frames written to conn, in order
    released,    \* the frames the writer has taken: for each, how many
                 \* times Release was called on it
    failures,    \* the failed writes to conn: the first error, how many,
                 \* whether a write was tried after one had failed
    atClose,     \* the queue as it was when Close set w.closed
    loop,        \* the writeLoop goroutine: where it is, the frame it holds
    prod,        \* the WriteFrame callers: where each is, what it got back
    closer,      \* the Close callers
    fwFault,     \* the panic that ended the process, or "none"
    \* ---- protocol.WriteFrame / protocol.ReadFrame / pool.BufferPool
    stream,      \* the bytes written to the stream and not yet read
    broken,      \* a Write on the stream has failed: the stream is at its end
    writes,      \* how many writes the stream has seen
    clean,       \* every write so far was a WriteFrame that returned nil
    wrRet,       \* what the last WriteFrame returned, the bytes it put out
    sent,        \* the frames whose WriteFrame returned nil, in order
    rd,          \* the ReadFrame call in progress
    returned,    \* what the ReadFrame calls returned, in order
    frames,      \* the decoded frames, as Release has left them
    pool,        \* the buffers checked out of the pool: capacity, times put back
    \* ---- one tunnel.Connection, its channels and goroutines
    cmu,         \* c.mu: the Close caller that holds it, or "none"
    cclosed,     \* c.closed
    chClosed,    \* CloseCh and SendCh: whether each has been closed
    chCloses,    \* CloseCh and SendCh: how many times each was closed
    sendCh,      \* the messages in SendCh, oldest first
    sender,      \* the Send callers: where each is, what it got back
    closeCall,   \* the Close callers: where each is
    pump,        \* StartWritePump: "unstarted"; "drain" for the goroutine
                 \* of a connection without WebSocket; "running",
                 \* "closing" for the write pump; "stopped"
    cFault,      \* the panic that ended the process, or "none"
    \* ---- the client's connection loop (runHTTP, runTCP)
    cli,         \* where the loop is, reconnectAttempts, what it returned
    \* ---- pool.WorkerPool
    wp,          \* the pool's fields, its goroutines, the Submit callers
    \* ---- the accept loop of tcp.Listener and SubmitWait, callers of Submit
    users,       \* the calls in progress, l.wg, the jobs run outside the pool
    \* ---- utils.ValidateSubdomain, utils.GenerateSubdomain
    label,       \* the last call: the function, the string, the answer
    \* ---- the FrameWriter that has no error latch
    pw           \* its fields, conn, its goroutines and callers

regVars == <<tunnels, used, conns, regResult>>
respVars == <<channels, chans, snd, sndLast, stopClosed, sweeper, tickPending, respFault>>

fwVars == <<queue, queueClosed, doneClosed, batch, closed, writeErr, errOnce,
            onWriteError, cbCalls, adaptive, hb, wire, released, failures,
            atClose, loop, prod, closer, fwFault>>

codecVars == <<stream, broken, writes, clean, wrRet, sent, rd, returned, frames, pool>>

connVars == <<cmu, cclosed, chClosed, chCloses, sendCh, sender, closeCall, pump,
              cFault>>

clientVars == <<cli>>

poolVars == <<wp>>

userVars == <<users>>

labelVars == <<label>>
plainVars == <<pw>>

vars ==
    <<regVars, respVars, fwVars, codecVars, connVars, clientVars, poolVars, userVars,
      labelVars, plainVars>>

\* ------------------------------------------------------------------ bounds

\* The number of Connection objects the model creates.
MaxConns == 2
\* The idle time (in ticks) after which the model stops counting.
MaxIdle == 1

\* ------------------------------------------------------------- subdomains

\* A subdomain is a sequence of one-character strings.
Rep(c, n) == [i \in 1..n |-> c]

SubdomainChars ==
    <<"a","b","c","d","e","f","g","h","i","j","k","l","m","n","o","p","q","r",
      "s","t","u","v","w","x","y","z","0","1","2","3","4","5","6","7","8","9">>

AlnumChars == {SubdomainChars[i] : i \in 1..Len(SubdomainChars)}

DefaultSubdomainLength == 6
MinSubdomainLen == 3
MaxSubdomainLen == 63
maxAttempts == 10
FallbackLength == 8

\* The characters the model lets the random source draw.
RngChars == {"a"}

\* GenerateSubdomain(length): the strings the call may return. Every
\* character is drawn from SubdomainChars; the model enumerates the draws
\* that repeat one character of RngChars, the draw "status" (a reserved
\* label of the default length), and the string the code builds when the
\* random source fails at every position (SubdomainChars[i % 36]).
GenerateSubdomain(length) ==
    LET n == IF length <= 0 THEN DefaultSubdomainLength ELSE length
    IN  {Rep(c, n) : c \in RngChars}
        \cup {[i \in 1..n |-> SubdomainChars[((i - 1) % Len(SubdomainChars)) + 1]]}
        \cup (IF n = 6 THEN {<<"s","t","a","t","u","s">>} ELSE {})

\* subdomainRegex without the class of the last character.
subdomainRegexMatch_OpenEnd(s) ==
    /\ Len(s) >= 3
    /\ Len(s) <= MaxSubdomainLen
    /\ s[1] \in AlnumChars
    /\ \A i \in 2..Len(s) : s[i] \in AlnumChars \cup {"-"}

\* subdomainRegex: ^[a-z0-9][a-z0-9-]{1,61}[a-z0-9]$
subdomainRegexMatch(s) ==
    /\ Len(s) >= 3
    /\ Len(s) <= MaxSubdomainLen
    /\ s[1] \in AlnumChars
    /\ s[Len(s)] \in AlnumChars
    /\ \A i \in 2..(Len(s) - 1) : s[i] \in AlnumChars \cup {"-"}

ValidateSubdomain(s) ==
    IF Len(s) < MinSubdomainLen \/ Len(s) > MaxSubdomainLen
    THEN FALSE
    ELSE subdomainRegexMatch(s)

ReservedLabels ==
    { <<"w","w","w">>, <<"a","p","i">>, <<"a","d","m","i","n">>,
      <<"a","p","p">>, <<"m","a","i","l">>, <<"f","t","p">>,
      <<"b","l","o","g">>, <<"s","h","o","p">>,
      <<"s","t","a","t","u","s">>, <<"h","e","a","l","t","h">>,
      <<"t","e","s","t">>, <<"d","e","v">>,
      <<"s","t","a","g","i","n","g">> }

IsReserved(s) == s \in ReservedLabels

\* The subdomains a client asks for in the model: valid free labels, a label
\* the generator can also draw (of length 6 and of length 8), a reserved
\* label, and malformed ones (too short, leading hyphen, upper case).
CustomSubdomains ==
    { <<"m","y","a","p","p">>,
      Rep("a", 6),
      Rep("a", 8),
      <<"a","p","i">>,
      <<"a","b">>,
      <<"-","a","b">>,
      <<"A","b","c">> }

NoSubdomain == <<>>

\* ------------------------------------------------------------ Connection

\* NewConnection: a fresh, open connection that was active just now.
NewConnection(subdomain) ==
    [Subdomain |-> subdomain, closed |-> FALSE, closes |-> 0, idle |-> 0]

\* (a connection idle for exactly the timeout still counts as alive)
IsAlive_AtTimeout(c, timeout) == c.idle <= timeout

\* Connection.IsAlive(timeout): time.Since(LastActive) < timeout
IsAlive(c, timeout) == c.idle < timeout

\* Connection.Close: the first call closes CloseCh and SendCh, later calls
\* return at the closed check.
ConnClose(c) ==
    IF c.closed THEN c
    ELSE [c EXCEPT !.closed = TRUE, !.closes = c.closes + 1]

ConnIds == 1..MaxConns

\* --------------------------------------------------------------- Manager

\* A step of the registry leaves the other components alone.
RegOnly ==
    UNCHANGED <<respVars, fwVars, codecVars, connVars, clientVars, poolVars,
                userVars, labelVars, plainVars>>

\* generateUniqueSubdomain, from attempt i on: the labels it may return
\* when `u` is the used set. An attempt returns its draw when the draw is
\* neither used nor reserved; otherwise the loop goes on, and after
\* maxAttempts failed draws the fallback is returned unchecked.
RECURSIVE generateFrom(_, _)
generateFrom(i, u) ==
    IF i >= maxAttempts
    THEN GenerateSubdomain(FallbackLength)
    ELSE {s \in GenerateSubdomain(6) : s \notin u /\ ~IsReserved(s)}
         \cup (IF \E s \in GenerateSubdomain(6) : s \in u \/ IsReserved(s)
               THEN generateFrom(i + 1, u)
               ELSE {})

generateUniqueSubdomain(u) == generateFrom(0, u)

\* The part of Register after the subdomain is chosen (manager.go 54-67).
RegisterBind(subdomain) ==
    LET id == Cardinality(DOMAIN conns) + 1
    IN  /\ id <= MaxConns
        /\ conns' = [i \in DOMAIN conns \cup {id} |->
                        IF i = id THEN NewConnection(subdomain) ELSE conns[i]]
        /\ tunnels' = [s \in DOMAIN tunnels \cup {subdomain} |->
                        IF s = subdomain THEN id ELSE tunnels[s]]
        /\ used' = used \cup {subdomain}
        /\ regResult' = [op |-> "Register", sub |-> subdomain, err |-> "nil",
                         conn |-> id]

\* (an error return that marks the subdomain used all the same)
RegisterFail_Marks(custom, e) ==
    /\ regResult' = [op |-> "Register", sub |-> NoSubdomain, err |-> e,
                     conn |-> 0]
    /\ used' = used \cup {custom}
    /\ UNCHANGED <<tunnels, conns>>

RegisterFail(custom, e) ==
    /\ regResult' = [op |-> "Register", sub |-> NoSubdomain, err |-> e,
                     conn |-> 0]
    /\ UNCHANGED <<tunnels, used, conns>>

\* (a Register that does not look at m.used)
RegisterCustom_Rebinds(custom) ==
    /\ RegOnly
    /\ custom # NoSubdomain
    /\ IF ~ValidateSubdomain(custom)
       THEN RegisterFail(custom, "ErrInvalidSubdomain")
       ELSE IF IsReserved(custom)
       THEN RegisterFail(custom, "ErrReservedSubdomain")
       ELSE RegisterBind(custom)

\* Manager.Register with a non-empty customSubdomain.
RegisterCustom(custom) ==
    /\ RegOnly
    /\ custom # NoSubdomain
    /\ IF ~ValidateSubdomain(custom)
       THEN RegisterFail(custom, "ErrInvalidSubdomain")
       ELSE IF IsReserved(custom)
       THEN RegisterFail(custom, "ErrReservedSubdomain")
       ELSE IF custom \in used
       THEN RegisterFail(custom, "ErrSubdomainTaken")
       ELSE RegisterBind(custom)

\* Manager.Register with customSubdomain == "".
RegisterAuto ==
    /\ RegOnly
    /\ \E s \in generateUniqueSubdomain(used) : RegisterBind(s)

\* (an Unregister that leaves the subdomain marked used)
Unregister_KeepsUsed(subdomain) ==
    /\ RegOnly
    /\ IF subdomain \in DOMAIN tunnels
       THEN /\ conns' = [conns EXCEPT ![tunnels[subdomain]] = ConnClose(@)]
            /\ tunnels' = [s \in DOMAIN tunnels \ {subdomain} |-> tunnels[s]]
            /\ UNCHANGED used
       ELSE UNCHANGED <<tunnels, used, conns>>
    /\ regResult' = [op |-> "Unregister", sub |-> NoSubdomain, err |-> "nil",
                     conn |-> 0]

\* Manager.Unregister
Unregister(subdomain) ==
    /\ RegOnly
    /\ IF subdomain \in DOMAIN tunnels
       THEN /\ conns' = [conns EXCEPT ![tunnels[subdomain]] = ConnClose(@)]
            /\ tunnels' = [s \in DOMAIN tunnels \ {subdomain} |-> tunnels[s]]
            /\ used' = used \ {subdomain}
       ELSE UNCHANGED <<tunnels, used, conns>>
    /\ regResult' = [op |-> "Unregister", sub |-> NoSubdomain, err |-> "nil",
                     conn |-> 0]

\* (a CleanupStale that leaves the stale subdomains marked used)
CleanupStale_KeepsUsed(timeout) ==
    LET staleSubdomains ==
            {s \in DOMAIN tunnels : ~IsAlive(conns[tunnels[s]], timeout)}
        staleConns == {tunnels[s] : s \in staleSubdomains}
    IN  /\ RegOnly
        /\ conns' = [i \in DOMAIN conns |->
                        IF i \in staleConns THEN ConnClose(conns[i]) ELSE conns[i]]
        /\ tunnels' = [s \in DOMAIN tunnels \ staleSubdomains |-> tunnels[s]]
        /\ UNCHANGED used
        /\ regResult' = [op |-> "CleanupStale", sub |-> NoSubdomain,
                         err |-> "nil", conn |-> Cardinality(staleSubdomains)]

\* Manager.CleanupStale
CleanupStale(timeout) ==
    LET staleSubdomains ==
            {s \in DOMAIN tunnels : ~IsAlive(conns[tunnels[s]], timeout)}
        staleConns == {tunnels[s] : s \in staleSubdomains}
    IN  /\ RegOnly
        /\ conns' = [i \in DOMAIN conns |->
                        IF i \in staleConns THEN ConnClose(conns[i]) ELSE conns[i]]
        /\ tunnels' = [s \in DOMAIN tunnels \ staleSubdomains |-> tunnels[s]]
        /\ used' = used \ staleSubdomains
        /\ regResult' = [op |-> "CleanupStale", sub |-> NoSubdomain,
                         err |-> "nil", conn |-> Cardinality(staleSubdomains)]

\* (a Shutdown that keeps m.used)
Shutdown_KeepsUsed ==
    /\ RegOnly
    /\ conns' = [i \in DOMAIN conns |->
                    IF \E s \in DOMAIN tunnels : tunnels[s] = i
                    THEN ConnClose(conns[i]) ELSE conns[i]]
    /\ tunnels' = <<>>
    /\ UNCHANGED used
    /\ regResult' = [op |-> "Shutdown", sub |-> NoSubdomain, err |-> "nil",
                     conn |-> 0]

\* (a Shutdown that empties the maps and closes nothing)
Shutdown_LeavesOpen ==
    /\ RegOnly
    /\ tunnels' = <<>>
    /\ used' = {}
    /\ UNCHANGED conns
    /\ regResult' = [op |-> "Shutdown", sub |-> NoSubdomain, err |-> "nil",
                     conn |-> 0]

\* Manager.Shutdown
Shutdown ==
    /\ RegOnly
    /\ conns' = [i \in DOMAIN conns |->
                    IF \E s \in DOMAIN tunnels : tunnels[s] = i
                    THEN ConnClose(conns[i]) ELSE conns[i]]
    /\ tunnels' = <<>>
    /\ used' = {}
    /\ regResult' = [op |-> "Shutdown", sub |-> NoSubdomain, err |-> "nil",
                     conn |-> 0]

\* The connections the registry holds.
Bound == {tunnels[s] : s \in DOMAIN tunnels}

\* Connection.UpdateActivity. LastActive is read by CleanupStale alone, and
\* only for a bound connection; the model follows it for those.
UpdateActivity(id) ==
    /\ RegOnly
    /\ id \in Bound
    /\ conns' = [conns EXCEPT ![id].idle = 0]
    /\ UNCHANGED <<tunnels, used, regResult>>

\* Connection.Close called on the connection itself.
ConnectionClose(id) ==
    /\ RegOnly
    /\ id \in DOMAIN conns
    /\ conns' = [conns EXCEPT ![id] = ConnClose(@)]
    /\ UNCHANGED <<tunnels, used, regResult>>

\* Connection.StartWritePump comes to its end on an open connection: a write
\* or a ping failed. The deferred c.Close() runs.
WritePumpExit(id) ==
    /\ RegOnly
    /\ id \in DOMAIN conns
    /\ ~conns[id].closed
    /\ conns' = [conns EXCEPT ![id] = ConnClose(@)]
    /\ UNCHANGED <<tunnels, used, regResult>>

\* Manager.Get: the connection bound to the subdomain, 0 for none.
Get(subdomain) ==
    IF subdomain \in DOMAIN tunnels THEN tunnels[subdomain] ELSE 0

\* Manager.Count
Count == Cardinality(DOMAIN tunnels)

\* Manager.List: the connections in m.tunnels (their order is the map's).
List == {tunnels[s] : s \in DOMAIN tunnels}

\* Time passes: every bound connection has been idle one tick longer.
RegTick ==
    /\ RegOnly
    /\ \E i \in Bound : conns[i].idle < MaxIdle
    /\ conns' = [i \in DOMAIN conns |->
                    [conns[i] EXCEPT !.idle = IF i \in Bound /\ @ < MaxIdle
                                              THEN @ + 1 ELSE @]]
    /\ UNCHANGED <<tunnels, used, regResult>>

RegInitVars ==
    /\ tunnels = <<>>
    /\ used = {}
    /\ conns = <<>>
    /\ regResult = [op |-> "none", sub |-> NoSubdomain, err |-> "nil", conn |-> 0]

RegNext ==
    \/ \E custom \in CustomSubdomains : RegisterCustom(custom)
    \/ RegisterAuto
    \/ \E s \in DOMAIN tunnels \cup CustomSubdomains : Unregister(s)
    \/ \E timeout \in 1..MaxIdle : CleanupStale(timeout)
    \/ Shutdown
    \/ \E id \in Bound : UpdateActivity(id)
    \/ \E id \in DOMAIN conns : ConnectionClose(id)
    \/ \E id \in DOMAIN conns : WritePumpExit(id)
    \/ RegTick

\* ======================================================= ResponseHandler

\* The number of reply channels the model makes.
MaxChans == 2
\* The seconds between two looks at the clock.
TickSec == 30

ReqIDs == {"r1", "r2"}
\* The goroutines that call SendResponse (the reader of the control link).
Senders == {"s1"}

\* ticker period of cleanupLoop, entry lifetime and SendResponse's wait (s).
CleanupIntervalSec == 5
ExpirySec == 30
\* The model looks at the clock every TickSec seconds; ages are counted in
\* seconds up to the first value past the lifetime that it can see.
AgeCap == ExpirySec + TickSec

ChanCap == 1

RespOnly ==
    UNCHANGED <<regVars, fwVars, codecVars, connVars, clientVars, poolVars,
                userVars, labelVars, plainVars>>

Alive == respFault = "none"

\* A caller that is not inside SendResponse.
IdleSender == [pc |-> "idle", ch |-> 0]

\* close(ch) for every channel in cs.
CloseChans(cs) ==
    [c \in DOMAIN chans |->
        IF c \in cs THEN [chans[c] EXCEPT !.closed = TRUE] ELSE chans[c]]

\* close(ch) of a closed channel panics.
CloseFault(cs) ==
    IF \E c \in cs : chans[c].closed THEN "close of closed channel" ELSE respFault

RemoveKeys(f, ks) == [k \in DOMAIN f \ ks |-> f[k]]

\* ResponseHandler.CreateResponseChan: a new channel of capacity 1 is stored
\* under requestID, replacing whatever entry was there.
CreateResponseChan(r) ==
    LET c == Cardinality(DOMAIN chans) + 1
    IN  /\ Alive
        /\ c <= MaxChans
        /\ chans' = [i \in DOMAIN chans \cup {c} |->
                        IF i = c
                        THEN [rid |-> r, buf |-> <<>>, closed |-> FALSE, sent |-> 0]
                        ELSE chans[i]]
        /\ channels' = [k \in DOMAIN channels \cup {r} |->
                           IF k = r THEN [ch |-> c, age |-> 0] ELSE channels[k]]
        /\ UNCHANGED <<snd, sndLast, stopClosed, sweeper, tickPending, respFault>>
        /\ RespOnly

\* ResponseHandler.GetResponseChan
GetResponseChan(r) == IF r \in DOMAIN channels THEN channels[r].ch ELSE 0

\* ResponseHandler.GetPendingCount
GetPendingCount == Cardinality(DOMAIN channels)

\* (a lookup that makes the missing entry instead of giving up)
SendResponseLookup_Creates(s, r) ==
    /\ Alive
    /\ snd[s].pc = "idle"
    /\ IF r \notin DOMAIN channels
       THEN /\ sndLast' = "notfound"
            /\ channels' = [k \in DOMAIN channels \cup {r} |->
                               IF k = r THEN [ch |-> 0, age |-> 0] ELSE channels[k]]
            /\ UNCHANGED snd
       ELSE /\ snd' = [snd EXCEPT ![s] = [pc |-> "select", ch |-> channels[r].ch]]
            /\ UNCHANGED <<sndLast, channels>>
    /\ UNCHANGED <<chans, stopClosed, sweeper, tickPending, respFault>>
    /\ RespOnly

\* SendResponse, lines 65-74: the lookup under the read lock. A missing
\* entry ends the call; otherwise the caller goes on to the select holding
\* the entry it read.
SendResponseLookup(s, r) ==
    /\ Alive
    /\ snd[s].pc = "idle"
    /\ IF r \notin DOMAIN channels
       THEN /\ sndLast' = "notfound"
            /\ UNCHANGED snd
       ELSE /\ snd' = [snd EXCEPT ![s] = [pc |-> "select", ch |-> channels[r].ch]]
            /\ UNCHANGED sndLast
    /\ UNCHANGED <<channels, chans, stopClosed, sweeper, tickPending, respFault>>
    /\ RespOnly

\* SendResponse, lines 76-85: the select. The send case proceeds when the
\* channel has room, and panics when the channel is closed; the timer case
\* ends the call after 5 s.
SendResponseSelect(s) ==
    LET c == snd[s].ch
    IN  /\ Alive
        /\ snd[s].pc = "select"
        /\ \/ /\ chans[c].closed
              /\ respFault' = "send on closed channel"
              /\ snd' = [snd EXCEPT ![s].pc = "panic"]
              /\ UNCHANGED <<chans, sndLast>>
           \/ /\ ~chans[c].closed
              /\ Len(chans[c].buf) < ChanCap
              /\ chans' = [chans EXCEPT ![c].buf = Append(@, "resp"),
                                        ![c].sent = IF @ < 2 THEN @ + 1 ELSE @]
              /\ snd' = [snd EXCEPT ![s] = IdleSender]
              /\ sndLast' = "none"
              /\ UNCHANGED respFault
           \/ /\ snd' = [snd EXCEPT ![s] = IdleSender]
              /\ sndLast' = "none"
              /\ UNCHANGED <<chans, respFault>>
        /\ UNCHANGED <<channels, stopClosed, sweeper, tickPending>>
        /\ RespOnly

\* The waiter that holds channel c receives the response in it.
WaiterReceive(c) ==
    /\ Alive
    /\ c \in DOMAIN chans
    /\ chans[c].buf # <<>>
    /\ chans' = [chans EXCEPT ![c].buf = Tail(@)]
    /\ UNCHANGED <<channels, snd, sndLast, stopClosed, sweeper, tickPending, respFault>>
    /\ RespOnly

\* ResponseHandler.CleanupResponseChan
CleanupResponseChan(r) ==
    /\ Alive
    /\ IF r \in DOMAIN channels
       THEN /\ chans' = CloseChans({channels[r].ch})
            /\ channels' = RemoveKeys(channels, {r})
            /\ respFault' = CloseFault({channels[r].ch})
       ELSE UNCHANGED <<chans, channels, respFault>>
    /\ UNCHANGED <<snd, sndLast, stopClosed, sweeper, tickPending>>
    /\ RespOnly

\* (a sweep that also takes the entries aged exactly the timeout)
Expired_AtLeast(entry) == entry.age >= ExpirySec

\* now.Sub(entry.createdAt) > timeout
Expired(entry) == entry.age > ExpirySec

\* ResponseHandler.cleanupExpiredChannels, run by cleanupLoop on a tick.
cleanupExpiredChannels ==
    LET expired == {r \in DOMAIN channels : Expired(channels[r])}
        cs == {channels[r].ch : r \in expired}
    IN  /\ Alive
        /\ sweeper = "running"
        /\ tickPending
        /\ tickPending' = FALSE
        /\ chans' = CloseChans(cs)
        /\ channels' = RemoveKeys(channels, expired)
        /\ respFault' = CloseFault(cs)
        /\ UNCHANGED <<snd, sndLast, stopClosed, sweeper>>
        /\ RespOnly

\* cleanupLoop, the stopCh case: the goroutine returns.
cleanupLoopStop ==
    /\ Alive
    /\ sweeper = "running"
    /\ stopClosed
    /\ sweeper' = "stopped"
    /\ UNCHANGED <<channels, chans, snd, sndLast, stopClosed, tickPending, respFault>>
    /\ RespOnly

\* ResponseHandler.Close: closes stopCh (a second call panics there), then
\* closes every remaining channel and replaces the map.
HandlerClose ==
    /\ Alive
    /\ IF stopClosed
       THEN /\ respFault' = "close of closed stopCh"
            /\ UNCHANGED <<channels, chans, stopClosed>>
       ELSE /\ stopClosed' = TRUE
            /\ chans' = CloseChans({channels[r].ch : r \in DOMAIN channels})
            /\ channels' = <<>>
            /\ respFault' = CloseFault({channels[r].ch : r \in DOMAIN channels})
    /\ UNCHANGED <<snd, sndLast, sweeper, tickPending>>
    /\ RespOnly

\* TickSec seconds pass: every entry is that much older, and the ticker,
\* whose period is not longer, has put a tick in its channel (of capacity 1).
RespTick ==
    /\ Alive
    /\ channels' = [r \in DOMAIN channels |->
                       [channels[r] EXCEPT !.age =
                           IF @ + TickSec > AgeCap THEN AgeCap ELSE @ + TickSec]]
    /\ tickPending' = (sweeper = "running" /\ TickSec >= CleanupIntervalSec)
    /\ UNCHANGED <<chans, snd, sndLast, stopClosed, sweeper, respFault>>
    /\ RespOnly

RespInitVars ==
    /\ channels = <<>>
    /\ chans = <<>>
    /\ snd = [s \in Senders |-> IdleSender]
    /\ sndLast = "none"
    /\ stopClosed = FALSE
    /\ sweeper = "running"
    /\ tickPending = FALSE
    /\ respFault = "none"

RespNext ==
    \/ \E r \in ReqIDs : CreateResponseChan(r)
    \/ \E s \in Senders, r \in ReqIDs : SendResponseLookup(s, r)
    \/ \E s \in Senders : SendResponseSelect(s)
    \/ \E c \in DOMAIN chans : WaiterReceive(c)
    \/ \E r \in ReqIDs : CleanupResponseChan(r)
    \/ cleanupExpiredChannels
    \/ cleanupLoopStop
    \/ HandlerClose
    \/ RespTick

\* =========================================================== FrameWriter

\* The capacity of w.queue and w.maxBatch in the model.
QueueSize == 1
MaxBatch == 2
\* The WriteFrame calls of one producer, and the heartbeat frames made.
MaxFrames == 2
MaxHeartbeats == 1

Producers == {"p1"}
\* The callers of Close, numbered in the order they enter it.
Closers == {1, 2}
\* The caller of Close when Close is called once.
OneCloser == {1}
\* The errors conn.Write may return.
Errs == {"e1", "e2"}
\* The thresholds EnableAdaptiveFlush is called with.
Thresholds == {0}
\* What EnableHeartbeat is called with: a positive interval, a callback.
HeartbeatIntervals == {1}
HeartbeatCallbacks == {TRUE}

FwOnly ==
    UNCHANGED <<regVars, respVars, codecVars, connVars, clientVars, poolVars,
                userVars, labelVars, plainVars>>

Running == fwFault = "none"

Range(s) == {s[i] : i \in 1..Len(s)}

\* The writer takes frame f: no Release has been called on it.
Taken(r, f) == [g \in DOMAIN r \cup {f} |-> IF g \in DOMAIN r THEN r[g] ELSE 0]

\* frame.Release() on each frame of b in turn.
RECURSIVE ReleaseAll(_, _)
ReleaseAll(r, b) ==
    IF b = <<>> THEN r
    ELSE ReleaseAll([Taken(r, Head(b)) EXCEPT ![Head(b)] = @ + 1], Tail(b))

\* The frames of b whose write succeeded, in order.
RECURSIVE Written(_, _)
Written(b, o) ==
    IF b = <<>> THEN <<>>
    ELSE (IF Head(o) = "ok" THEN <<Head(b)>> ELSE <<>>) \o Written(Tail(b), Tail(o))

\* The results of the writes of one flush: one per frame, each nil or an error.
Outcomes(b) == [1..Len(b) -> {"ok"} \cup Errs]

Failed(o) == {i \in 1..Len(o) : o[i] # "ok"}

FirstErr(o) ==
    IF Failed(o) = {} THEN "nil"
    ELSE o[CHOOSE i \in Failed(o) : \A j \in Failed(o) : i <= j]

\* The record of conn's failed writes: the error of the first one,
\* whether there were none, one, or more, and whether WriteFrame was called
\* on conn after the error was latched: in a flush that began with the
\* latch set, or for a frame that follows a failed one in the batch.
Observe(o) ==
    [first |-> IF failures.first = "nil" THEN FirstErr(o) ELSE failures.first,
     count |-> IF failures.count + Cardinality(Failed(o)) >= 2 THEN 2
               ELSE failures.count + Cardinality(Failed(o)),
     late  |-> \/ failures.late
               \/ errOnce /\ Len(o) >= 1
               \/ \E i \in Failed(o) : i < Len(o)]

\* (a latch that takes the error of every failed write, not only the first)
Latch_Overwrites(err) ==
    IF err = "nil"
    THEN UNCHANGED <<writeErr, errOnce, closed, cbCalls>>
    ELSE /\ writeErr' = err
         /\ errOnce' = TRUE
         /\ closed' = TRUE
         /\ cbCalls' = cbCalls + (IF onWriteError THEN 1 ELSE 0)

\* flushBatchLocked, lines 450-458: w.errOnce.Do on a failed write. `err` is
\* the first error of the flush ("nil" when every write succeeded).
Latch(err) ==
    IF err = "nil" \/ errOnce
    THEN UNCHANGED <<writeErr, errOnce, closed, cbCalls>>
    ELSE /\ writeErr' = err
         /\ errOnce' = TRUE
         /\ closed' = TRUE
         /\ cbCalls' = cbCalls + (IF onWriteError THEN 1 ELSE 0)

\* FrameWriter.flushBatchLocked on the batch b, the writes ending as o says:
\* every frame is tried and released, the batch is emptied.
flushBatchLocked(b, o) ==
    /\ wire' = wire \o Written(b, o)
    /\ released' = ReleaseAll(released, b)
    /\ batch' = <<>>
    /\ failures' = Observe(o)
    /\ Latch(FirstErr(o))

NoFlush(b) ==
    /\ batch' = b
    /\ UNCHANGED <<wire, released, failures, writeErr, errOnce, closed, cbCalls>>

\* What a refused WriteFrame returns.
ClosedErr == IF writeErr # "nil" THEN writeErr ELSE "writer closed"

\* ---- FrameWriter.WriteFrame

\* Lines 466-474: the closed check under the lock. The frame of the call is
\* <<p, k>>, k counting the calls of p.
WriteFrameCheck(p) ==
    /\ Running
    /\ prod[p].pc = "idle"
    /\ prod[p].k < MaxFrames
    /\ prod' = [prod EXCEPT ![p] = [pc  |-> IF closed THEN "refused" ELSE "select",
                                    k   |-> @.k + 1,
                                    ret |-> "none"]]
    /\ UNCHANGED <<atClose, queue, queueClosed, doneClosed, batch, closed, writeErr, errOnce,
                   onWriteError, cbCalls, adaptive, hb, wire, failures, released, loop,
                   closer, fwFault>>
    /\ FwOnly

\* Lines 469-472: the refused call reads w.writeErr after the unlock.
WriteFrameRefused(p) ==
    /\ Running
    /\ prod[p].pc = "refused"
    /\ prod' = [prod EXCEPT ![p].pc = "idle", ![p].ret = ClosedErr]
    /\ UNCHANGED <<atClose, queue, queueClosed, doneClosed, batch, closed, writeErr, errOnce,
                   onWriteError, cbCalls, adaptive, hb, wire, failures, released,
                   loop, closer, fwFault>>
    /\ FwOnly

\* Lines 476-487: the select. The send proceeds when the queue has room and
\* panics when the queue is closed; the done case returns the closed error.
\* With neither ready the caller stays blocked.
WriteFrameSelect(p) ==
    /\ Running
    /\ prod[p].pc = "select"
    /\ \/ /\ queueClosed
          /\ fwFault' = "send on closed channel"
          /\ prod' = [prod EXCEPT ![p].pc = "panic"]
          /\ UNCHANGED <<queue, released>>
       \/ /\ ~queueClosed
          /\ Len(queue) < QueueSize
          /\ queue' = Append(queue, <<p, prod[p].k>>)
          /\ released' = Taken(released, <<p, prod[p].k>>)
          /\ prod' = [prod EXCEPT ![p].pc = "idle", ![p].ret = "nil"]
          /\ UNCHANGED fwFault
       \/ /\ doneClosed
          /\ prod' = [prod EXCEPT ![p].pc = "idle", ![p].ret = ClosedErr]
          /\ UNCHANGED <<queue, released, fwFault>>
    /\ UNCHANGED <<atClose, queueClosed, doneClosed, batch, closed, writeErr, errOnce,
                   onWriteError, cbCalls, adaptive, hb, wire, failures, loop, closer>>
    /\ FwOnly

\* ---- FrameWriter.writeLoop

\* case frame, ok := <-w.queue with a frame in the queue: the loop has the
\* frame and goes for the lock.
LoopReceive ==
    /\ Running
    /\ loop.pc = "select"
    /\ queue # <<>>
    /\ queue' = Tail(queue)
    /\ loop' = [pc |-> "append", frame |-> Head(queue)]
    /\ UNCHANGED <<atClose, queueClosed, doneClosed, batch, closed, writeErr, errOnce,
                   onWriteError, cbCalls, adaptive, hb, wire, failures, released, prod,
                   closer, fwFault>>
    /\ FwOnly

\* Lines 394-403: append under the lock, flush when the batch is full or the
\* queue is shallow.
LoopAppend ==
    LET b == Append(batch, loop.frame)
        shouldFlushNow ==
            \/ Len(b) >= MaxBatch
            \/ (adaptive.flush /\ Len(queue) <= adaptive.threshold)
    IN  /\ Running
        /\ loop.pc = "append"
        /\ IF shouldFlushNow
           THEN \E o \in Outcomes(b) : flushBatchLocked(b, o)
           ELSE NoFlush(b)
        /\ loop' = [pc |-> "select", frame |-> <<>>]
        /\ UNCHANGED <<atClose, queue, queueClosed, doneClosed, onWriteError, adaptive, hb,
                       prod, closer, fwFault>>
        /\ FwOnly

\* case <-batchTicker.C
LoopBatchTick ==
    /\ Running
    /\ loop.pc = "select"
    /\ batch # <<>>
    /\ \E o \in Outcomes(batch) : flushBatchLocked(batch, o)
    /\ UNCHANGED <<atClose, queue, queueClosed, doneClosed, onWriteError, adaptive, hb,
                   loop, prod, closer, fwFault>>
    /\ FwOnly

\* case <-heartbeatCh: the callback's frame, when it gives one, is appended
\* and the batch flushed.
LoopHeartbeat ==
    /\ Running
    /\ loop.pc = "select"
    /\ hb.ticker
    /\ \/ /\ hb.callback
          /\ hb.made < MaxHeartbeats
          /\ hb' = [hb EXCEPT !.made = @ + 1]
          /\ LET b == Append(batch, <<"hb", hb.made + 1>>)
             IN  \E o \in Outcomes(b) : flushBatchLocked(b, o)
       \/ \* no callback, or the callback returned nil
          /\ UNCHANGED <<hb, batch, wire, released, failures, writeErr, errOnce,
                         closed, cbCalls>>
    /\ UNCHANGED <<atClose, queue, queueClosed, doneClosed, onWriteError, adaptive,
                   loop, prod, closer, fwFault>>
    /\ FwOnly

\* case <-w.heartbeatControl: the ticker is stopped and, when the heartbeat
\* is enabled with a positive interval, made anew.
LoopHeartbeatControl ==
    /\ Running
    /\ loop.pc = "select"
    /\ hb.control
    /\ hb' = [hb EXCEPT !.control = FALSE,
                        !.ticker = (hb.enabled /\ hb.interval > 0)]
    /\ UNCHANGED <<atClose, queue, queueClosed, doneClosed, batch, closed, writeErr, errOnce,
                   onWriteError, cbCalls, adaptive, wire, failures, released, loop, prod,
                   closer, fwFault>>
    /\ FwOnly

\* The loop's two ways out: the queue closed and empty (lines 387-392), or
\* done closed (lines 435-439). Both flush what the batch holds.
LoopExit ==
    /\ Running
    /\ loop.pc = "select"
    /\ \/ (queueClosed /\ queue = <<>>)
       \/ doneClosed
    /\ \E o \in Outcomes(batch) : flushBatchLocked(batch, o)
    /\ loop' = [pc |-> "done", frame |-> <<>>]
    /\ UNCHANGED <<atClose, queue, queueClosed, doneClosed, onWriteError, adaptive, hb,
                   prod, closer, fwFault>>
    /\ FwOnly

\* ---- FrameWriter.Close

\* Lines 491-497: the closed check; the first caller past it sets closed.
CloseCheck(c) ==
    /\ Running
    /\ closer[c] = "idle"
    /\ \A d \in Closers : d < c => closer[d] # "idle"
    /\ IF closed
       THEN /\ closer' = [closer EXCEPT ![c] = "returned"]
            /\ UNCHANGED <<closed, atClose>>
       ELSE /\ closer' = [closer EXCEPT ![c] = "closeQueue"]
            /\ closed' = TRUE
            /\ atClose' = queue
    /\ UNCHANGED <<queue, queueClosed, doneClosed, batch, writeErr, errOnce,
                   onWriteError, cbCalls, adaptive, hb, wire, failures, released, loop,
                   prod, fwFault>>
    /\ FwOnly

\* Line 499: close(w.queue)
CloseQueue(c) ==
    /\ Running
    /\ closer[c] = "closeQueue"
    /\ IF queueClosed
       THEN /\ fwFault' = "close of closed channel"
            /\ UNCHANGED <<queueClosed, closer>>
       ELSE /\ queueClosed' = TRUE
            /\ closer' = [closer EXCEPT ![c] = "drain"]
            /\ UNCHANGED fwFault
    /\ UNCHANGED <<atClose, queue, doneClosed, batch, closed, writeErr, errOnce,
                   onWriteError, cbCalls, adaptive, hb, wire, failures, released, loop, prod>>
    /\ FwOnly

\* Lines 501-503: one turn of the drain, releasing a queued frame.
CloseDrain(c) ==
    /\ Running
    /\ closer[c] = "drain"
    /\ queue # <<>>
    /\ queue' = Tail(queue)
    /\ released' = ReleaseAll(released, <<Head(queue)>>)
    /\ UNCHANGED <<atClose, queueClosed, doneClosed, batch, closed, writeErr, errOnce,
                   onWriteError, cbCalls, adaptive, hb, wire, failures, loop, prod, closer,
                   fwFault>>
    /\ FwOnly

\* Lines 501-507: the drain ends on the empty closed queue; close(w.done).
CloseDone(c) ==
    /\ Running
    /\ closer[c] = "drain"
    /\ queue = <<>>
    /\ IF doneClosed
       THEN /\ fwFault' = "close of closed channel"
            /\ UNCHANGED <<doneClosed, closer>>
       ELSE /\ doneClosed' = TRUE
            /\ closer' = [closer EXCEPT ![c] = "returned"]
            /\ UNCHANGED fwFault
    /\ UNCHANGED <<atClose, queue, queueClosed, batch, closed, writeErr, errOnce,
                   onWriteError, cbCalls, adaptive, hb, wire, failures, released, loop, prod>>
    /\ FwOnly

\* ---- the other methods

\* FrameWriter.Flush: under the lock, whatever is in the queue is moved to
\* the batch and the batch flushed.
Flush ==
    /\ Running
    /\ ~closed
    /\ queue \o batch # <<>>
    /\ queue' = <<>>
    /\ LET b == batch \o queue
       IN  \E o \in Outcomes(b) : flushBatchLocked(b, o)
    /\ UNCHANGED <<atClose, queueClosed, doneClosed, onWriteError, adaptive, hb, loop, prod,
                   closer, fwFault>>
    /\ FwOnly

\* FrameWriter.EnableHeartbeat
EnableHeartbeat(interval, callback) ==
    /\ Running
    /\ hb' = [hb EXCEPT !.interval = interval, !.callback = callback,
                        !.enabled = TRUE, !.control = TRUE]
    /\ UNCHANGED <<atClose, queue, queueClosed, doneClosed, batch, closed, writeErr, errOnce,
                   onWriteError, cbCalls, adaptive, wire, failures, released, loop, prod,
                   closer, fwFault>>
    /\ FwOnly

\* FrameWriter.DisableHeartbeat
DisableHeartbeat ==
    /\ Running
    /\ hb' = [hb EXCEPT !.enabled = FALSE, !.control = TRUE]
    /\ UNCHANGED <<atClose, queue, queueClosed, doneClosed, batch, closed, writeErr, errOnce,
                   onWriteError, cbCalls, adaptive, wire, failures, released, loop, prod,
                   closer, fwFault>>
    /\ FwOnly

\* FrameWriter.SetWriteErrorHandler
SetWriteErrorHandler ==
    /\ Running
    /\ onWriteError' = TRUE
    /\ UNCHANGED <<atClose, queue, queueClosed, doneClosed, batch, closed, writeErr, errOnce,
                   cbCalls, adaptive, hb, wire, failures, released, loop, prod, closer, fwFault>>
    /\ FwOnly

\* FrameWriter.EnableAdaptiveFlush / DisableAdaptiveFlush
SetAdaptiveFlush(on, threshold) ==
    /\ Running
    /\ adaptive' = IF on THEN [flush |-> TRUE, threshold |-> threshold]
                   ELSE [adaptive EXCEPT !.flush = FALSE]
    /\ UNCHANGED <<atClose, queue, queueClosed, doneClosed, batch, closed, writeErr, errOnce,
                   onWriteError, cbCalls, hb, wire, failures, released, loop, prod, closer,
                   fwFault>>
    /\ FwOnly

\* NewFrameWriterWithConfig: the writer as made, its loop started.
FwInitVars ==
    /\ queue = <<>>
    /\ queueClosed = FALSE
    /\ doneClosed = FALSE
    /\ batch = <<>>
    /\ closed = FALSE
    /\ writeErr = "nil"
    /\ errOnce = FALSE
    /\ onWriteError = FALSE
    /\ cbCalls = 0
    /\ adaptive = [flush |-> FALSE, threshold |-> 0]
    /\ hb = [enabled |-> FALSE, interval |-> 0, callback |-> FALSE,
             ticker |-> FALSE, control |-> FALSE, made |-> 0]
    /\ wire = <<>>
    /\ released = <<>>
    /\ failures = [first |-> "nil", count |-> 0, late |-> FALSE]
    /\ atClose = <<>>
    /\ loop = [pc |-> "select", frame |-> <<>>]
    /\ prod = [p \in Producers |-> [pc |-> "idle", k |-> 0, ret |-> "none"]]
    /\ closer = [c \in Closers |-> "idle"]
    /\ fwFault = "none"

FwNext ==
    \/ \E p \in Producers : WriteFrameCheck(p)
    \/ \E p \in Producers : WriteFrameRefused(p)
    \/ \E p \in Producers : WriteFrameSelect(p)
    \/ LoopReceive
    \/ LoopAppend
    \/ LoopBatchTick
    \/ LoopHeartbeat
    \/ LoopHeartbeatControl
    \/ LoopExit
    \/ \E c \in OneCloser : CloseCheck(c)
    \/ \E c \in Closers : CloseQueue(c)
    \/ \E c \in Closers : CloseDrain(c)
    \/ \E c \in Closers : CloseDone(c)
    \/ Flush
    \/ \E i \in HeartbeatIntervals, cb \in HeartbeatCallbacks : EnableHeartbeat(i, cb)
    \/ DisableHeartbeat
    \/ SetWriteErrorHandler
    \/ \E on \in BOOLEAN, th \in Thresholds : SetAdaptiveFlush(on, th)

\* The writer with Close called again, by a second caller.
FwCloseNext ==
    \/ FwNext
    \/ \E c \in Closers \ OneCloser : CloseCheck(c)

\* =========================================================== frame codec

\* (a header of six bytes)
FrameHeaderSize_Six == 5 + 1

FrameHeaderSize == 5
MaxFrameSize == 10 * 1024 * 1024

SizeSmall == 4 * 1024
SizeMedium == 32 * 1024
SizeLarge == 256 * 1024

\* The WriteFrame calls and peer writes on the one stream of the model.
MaxWrites == 2
\* The ReadFrame calls that return: one for each write, and one that finds
\* the stream at its end.
MaxReads == MaxWrites + 1
\* The short reads the reader's source makes, at its choice, in one ReadFrame.
MaxFragments == 1

CodecOnly ==
    UNCHANGED <<regVars, respVars, fwVars, connVars, clientVars, poolVars,
                userVars, labelVars, plainVars>>

\* ---- []byte. A byte string is kept as its runs of equal bytes, each run a
\* byte value b and a length n >= 1, no two neighbouring runs of one value:
\* equal strings have equal representations, and a string of 10 MiB is one
\* run.

\* n bytes of value b.
Fill(b, n) == IF n = 0 THEN <<>> ELSE <<[b |-> b, n |-> n]>>

\* s followed by t.
Cat(s, t) ==
    IF s = <<>> THEN t
    ELSE IF t = <<>> THEN s
    ELSE IF s[Len(s)].b = t[1].b
    THEN SubSeq(s, 1, Len(s) - 1)
            \o <<[b |-> t[1].b, n |-> s[Len(s)].n + t[1].n]>>
            \o Tail(t)
    ELSE s \o t

\* len(s)
RECURSIVE BytesLen(_)
BytesLen(s) == IF s = <<>> THEN 0 ELSE s[1].n + BytesLen(Tail(s))

\* s[:k]
RECURSIVE TakeB(_, _)
TakeB(s, k) ==
    IF k = 0 \/ s = <<>> THEN <<>>
    ELSE IF s[1].n <= k THEN <<s[1]>> \o TakeB(Tail(s), k - s[1].n)
    ELSE <<[b |-> s[1].b, n |-> k]>>

\* s[k:]
RECURSIVE DropB(_, _)
DropB(s, k) ==
    IF k = 0 \/ s = <<>> THEN s
    ELSE IF s[1].n <= k THEN DropB(Tail(s), k - s[1].n)
    ELSE <<[b |-> s[1].b, n |-> s[1].n - k]>> \o Tail(s)

\* s[i-1], the i-th byte of s
RECURSIVE ByteAt(_, _)
ByteAt(s, i) == IF i <= s[1].n THEN s[1].b ELSE ByteAt(Tail(s), i - s[1].n)

\* []byte{q[1], q[2], ...}
RECURSIVE FromSeq(_)
FromSeq(q) == IF q = <<>> THEN <<>> ELSE Cat(Fill(q[1], 1), FromSeq(Tail(q)))

\* (the four bytes least significant first)
PutUint32_LittleEndian(v) ==
    FromSeq(<<v % 256, (v \div 256) % 256, (v \div 65536) % 256,
              (v \div 16777216) % 256>>)

\* binary.BigEndian.PutUint32. v is a payload length WriteFrame has found to
\* be at most MaxFrameSize, so uint32(v) is v.
PutUint32(v) ==
    FromSeq(<<(v \div 16777216) % 256, (v \div 65536) % 256,
              (v \div 256) % 256, v % 256>>)

\* binary.BigEndian.Uint32 of the first four bytes of h
Uint32(h) ==
    ByteAt(h, 1) * 16777216 + ByteAt(h, 2) * 65536 + ByteAt(h, 3) * 256
        + ByteAt(h, 4)

\* ---- the frames written

\* The seven frame types.
FrameTypes == 1..7

NewFrame(frameType, payload) == [Type |-> frameType, Payload |-> payload]

SmallPayload == FromSeq(<<1, 2>>)

\* The payloads of the model: none, two bytes, the largest pooled size and
\* one byte more, the largest frame and one byte more.
Payloads ==
    { <<>>, SmallPayload, Fill(171, SizeLarge), Fill(171, SizeLarge + 1),
      Fill(171, MaxFrameSize), Fill(171, MaxFrameSize + 1) }

\* The frames WriteFrame is called with: every type byte from 0 to 8 with
\* no payload, and a Data frame with each payload.
FrameInputs ==
    {NewFrame(t, <<>>) : t \in 0..8}
        \cup {NewFrame(5, p) : p \in Payloads}

\* What a peer that does not use WriteFrame puts on the stream: a header
\* that claims 12 MiB, and one that claims MaxFrameSize + 1.
PeerWrites ==
    { Cat(PutUint32(12 * 1024 * 1024), Fill(5, 1)),
      Cat(PutUint32(MaxFrameSize + 1), Fill(5, 1)) }

\* How the sink takes the w.Write calls of one WriteFrame: all succeed, or
\* the first, second or third fails. A failed Write takes no byte.
SinkOutcomes == {"ok", "fail1", "fail2", "fail3"}

\* The bytes the sink has taken when WriteFrame returns (lines 63-77).
Emitted(frame, o) ==
    LET payloadLen == BytesLen(frame.Payload)
        lengthBuf == PutUint32(payloadLen)
        typeBuf == Fill(frame.Type, 1)
    IN  IF o = "fail1" THEN <<>>
        ELSE IF o = "fail2" THEN lengthBuf
        ELSE IF o = "fail3" /\ payloadLen > 0 THEN Cat(lengthBuf, typeBuf)
        ELSE Cat(Cat(lengthBuf, typeBuf), frame.Payload)

\* What WriteFrame returns once the size test has passed.
WriteFrameErr(frame, o) ==
    IF o = "fail1" THEN "failed to write length"
    ELSE IF o = "fail2" THEN "failed to write type"
    ELSE IF o = "fail3" /\ BytesLen(frame.Payload) > 0
    THEN "failed to write payload"
    ELSE "nil"

\* (a WriteFrame that tests the size after the length has been written)
WriteFrame_LateCheck(frame, o) ==
    LET payloadLen == BytesLen(frame.Payload)
    IN  /\ CodecOnly
        /\ writes < MaxWrites
        /\ broken => o = "fail1"
        /\ writes' = writes + 1
        /\ IF payloadLen > MaxFrameSize
           THEN /\ wrRet' = [err |-> "payload too large", n |-> 4]
                /\ stream' = Cat(stream, PutUint32(payloadLen))
                /\ UNCHANGED <<broken, clean, sent>>
           ELSE /\ stream' = Cat(stream, Emitted(frame, o))
                /\ wrRet' = [err |-> WriteFrameErr(frame, o),
                             n |-> BytesLen(Emitted(frame, o))]
                /\ broken' = (broken \/ WriteFrameErr(frame, o) # "nil")
                /\ clean' = (clean /\ WriteFrameErr(frame, o) = "nil")
                /\ sent' = IF WriteFrameErr(frame, o) = "nil"
                           THEN Append(sent, frame) ELSE sent
        /\ UNCHANGED <<rd, returned, frames, pool>>

\* WriteFrame(w, frame), w being the stream of the model. After a Write has
\* failed the sink is broken and every later Write fails.
WriteFrame(frame, o) ==
    LET payloadLen == BytesLen(frame.Payload)
    IN  /\ CodecOnly
        /\ writes < MaxWrites
        /\ broken => o = "fail1"
        /\ writes' = writes + 1
        /\ IF payloadLen > MaxFrameSize
           THEN /\ wrRet' = [err |-> "payload too large", n |-> 0]
                /\ UNCHANGED <<stream, broken, clean, sent>>
           ELSE /\ stream' = Cat(stream, Emitted(frame, o))
                /\ wrRet' = [err |-> WriteFrameErr(frame, o),
                             n |-> BytesLen(Emitted(frame, o))]
                /\ broken' = (broken \/ WriteFrameErr(frame, o) # "nil")
                /\ clean' = (clean /\ WriteFrameErr(frame, o) = "nil")
                /\ sent' = IF WriteFrameErr(frame, o) = "nil"
                           THEN Append(sent, frame) ELSE sent
        /\ UNCHANGED <<rd, returned, frames, pool>>

\* The peer writes bytes of its own making.
PeerWrite(bytes) ==
    /\ CodecOnly
    /\ writes < MaxWrites
    /\ ~broken
    /\ writes' = writes + 1
    /\ stream' = Cat(stream, bytes)
    /\ clean' = FALSE
    /\ UNCHANGED <<broken, wrRet, sent, rd, returned, frames, pool>>

\* ---- pool.BufferPool

\* BufferPool.Get: the capacity of the buffer handed out for `size`.
PoolGet(size) ==
    IF size <= SizeSmall THEN SizeSmall
    ELSE IF size <= SizeMedium THEN SizeMedium
    ELSE SizeLarge

\* BufferPool.Put of checkout id: the buffer goes back to the pool of its
\* capacity; a buffer of another capacity is dropped.
PoolPut(p, id) ==
    IF p[id].cap \in {SizeSmall, SizeMedium, SizeLarge}
    THEN [p EXCEPT ![id].puts = @ + 1]
    ELSE p

\* ---- ReadFrame

\* No ReadFrame call is in progress.
RdIdle ==
    [pc |-> "idle", need |-> 0, buf |-> <<>>, used |-> 0, frag |-> 0,
     typ |-> 0, poolBuf |-> 0]

\* ReadFrame returns an error. `declared` is the length the header gave, -1
\* when no header was read; `alloc` is the payload buffer obtained.
ReturnErr(e, taken, declared, alloc) ==
    /\ returned' = Append(returned,
                      [err |-> e, Type |-> 0, Payload |-> <<>>, used |-> taken,
                       declared |-> declared, alloc |-> alloc])
    /\ rd' = RdIdle
    /\ UNCHANGED frames

\* ReadFrame returns a frame (lines 115-119).
ReturnFrame(frameType, payload, poolBuf, taken) ==
    /\ returned' = Append(returned,
                      [err |-> "nil", Type |-> frameType, Payload |-> payload,
                       used |-> taken, declared |-> BytesLen(payload),
                       alloc |-> BytesLen(payload)])
    /\ frames' = Append(frames,
                      [Type |-> frameType, Payload |-> payload,
                       poolBuffer |-> poolBuf])
    /\ rd' = RdIdle

\* Lines 88-113 up to the read of the payload: the header is complete.
HeaderDone(header, taken) ==
    LET payloadLen == Uint32(header)
        frameType == ByteAt(header, 5)
    IN  IF payloadLen > MaxFrameSize
        THEN ReturnErr("payload too large", taken, payloadLen, 0) /\ UNCHANGED pool
        ELSE IF payloadLen = 0
        THEN ReturnFrame(frameType, <<>>, 0, taken) /\ UNCHANGED pool
        ELSE IF payloadLen > SizeLarge
        THEN /\ rd' = [rd EXCEPT !.pc = "payload", !.need = payloadLen,
                                 !.buf = <<>>, !.used = taken,
                                 !.typ = frameType, !.poolBuf = 0]
             /\ UNCHANGED <<returned, frames, pool>>
        ELSE /\ pool' = Append(pool, [cap |-> PoolGet(payloadLen), puts |-> 0])
             /\ rd' = [rd EXCEPT !.pc = "payload", !.need = payloadLen,
                                 !.buf = <<>>, !.used = taken,
                                 !.typ = frameType, !.poolBuf = Len(pool) + 1]
             /\ UNCHANGED <<returned, frames>>

\* ReadFrame is called (line 83).
ReadFrameCall ==
    /\ CodecOnly
    /\ rd.pc = "idle"
    /\ Len(returned) < MaxReads
    /\ rd' = [RdIdle EXCEPT !.pc = "header", !.need = FrameHeaderSize]
    /\ UNCHANGED <<stream, broken, writes, clean, wrRet, sent, returned, frames, pool>>

\* The sizes of the short reads the source may choose; 0 stands for a read
\* that gives all it has, up to what io.ReadFull still asks for.
ChunkSizes == {0, 1}

\* One r.Read inside io.ReadFull (lines 84, 101, 108): the source gives k
\* bytes, at least one, never more than asked for. When that completes the
\* header or the payload, ReadFrame goes on to its next blocking read or
\* returns.
ReadStep(c) ==
    LET avail == BytesLen(stream)
        want == rd.need - BytesLen(rd.buf)
        m == IF want < avail THEN want ELSE avail
        k == IF c = 0 THEN m ELSE c
        buf == Cat(rd.buf, TakeB(stream, k))
        taken == rd.used + k
    IN  /\ CodecOnly
        /\ rd.pc \in {"header", "payload"}
        /\ avail > 0
        /\ c # 0 => (c < m /\ rd.frag < MaxFragments)
        /\ stream' = DropB(stream, k)
        /\ IF BytesLen(buf) < rd.need
           THEN /\ rd' = [rd EXCEPT !.buf = buf, !.used = taken,
                                    !.frag = IF c # 0 THEN @ + 1 ELSE @]
                /\ UNCHANGED <<returned, frames, pool>>
           ELSE IF rd.pc = "header"
           THEN HeaderDone(buf, taken)
           ELSE ReturnFrame(rd.typ, buf, rd.poolBuf, taken) /\ UNCHANGED pool
        /\ UNCHANGED <<broken, writes, clean, wrRet, sent>>

\* io.ReadFull finds the stream at its end (lines 84-86, 101-103, 108-111).
ReadEOF ==
    /\ CodecOnly
    /\ rd.pc \in {"header", "payload"}
    /\ stream = <<>>
    /\ broken
    /\ IF rd.pc = "header"
       THEN /\ ReturnErr("failed to read frame header", rd.used, -1, 0)
            /\ UNCHANGED pool
       ELSE /\ ReturnErr("failed to read payload", rd.used, rd.need, rd.need)
            /\ pool' = IF rd.poolBuf # 0 THEN PoolPut(pool, rd.poolBuf) ELSE pool
    /\ UNCHANGED <<stream, broken, writes, clean, wrRet, sent>>

\* (a Release that keeps the pool handle)
Release_KeepsHandle(i) ==
    /\ CodecOnly
    /\ i \in 1..Len(frames)
    /\ IF frames[i].poolBuffer # 0
       THEN /\ pool' = PoolPut(pool, frames[i].poolBuffer)
            /\ frames' = [frames EXCEPT ![i].Payload = <<>>]
       ELSE UNCHANGED <<frames, pool>>
    /\ UNCHANGED <<stream, broken, writes, clean, wrRet, sent, rd, returned>>

\* Frame.Release on the i-th decoded frame, called any number of times.
Release(i) ==
    /\ CodecOnly
    /\ i \in 1..Len(frames)
    /\ IF frames[i].poolBuffer # 0
       THEN /\ pool' = PoolPut(pool, frames[i].poolBuffer)
            /\ frames' = [frames EXCEPT ![i].poolBuffer = 0,
                                        ![i].Payload = <<>>]
       ELSE UNCHANGED <<frames, pool>>
    /\ UNCHANGED <<stream, broken, writes, clean, wrRet, sent, rd, returned>>

CodecInitVars ==
    /\ stream = <<>>
    /\ broken = FALSE
    /\ writes = 0
    /\ clean = TRUE
    /\ wrRet = [err |-> "none", n |-> 0]
    /\ sent = <<>>
    /\ rd = RdIdle
    /\ returned = <<>>
    /\ frames = <<>>
    /\ pool = <<>>

CodecNext ==
    \/ \E f \in FrameInputs, o \in SinkOutcomes : WriteFrame(f, o)
    \/ \E bytes \in PeerWrites : PeerWrite(bytes)
    \/ ReadFrameCall
    \/ \E c \in ChunkSizes : ReadStep(c)
    \/ ReadEOF
    \/ \E i \in 1..MaxReads : Release(i)

\* ====================================================== tunnel.Connection
\* One Connection with the goroutines that use it: callers of Send, callers
\* of Close, and the write pump.

\* The capacity of SendCh in the model (256 in NewConnection).
SendChSize == 1
\* The Send calls of one caller.
MaxSends == 2

SendCallers == {"s1", "s2"}
\* The callers of Close: two goroutines of the server, and the write pump
\* with its deferred c.Close().
CloseCallers == {"a", "b", "pump"}

ConnOnly ==
    UNCHANGED <<regVars, respVars, fwVars, codecVars, clientVars, poolVars,
                userVars, labelVars, plainVars>>

\* What Send leaves alone.
SendKeeps == UNCHANGED <<cmu, cclosed, chClosed, chCloses, closeCall, pump>>

\* Lines 48-53: the closed test under the read lock. The data of the call is
\* <<s, k>>, k counting the calls of s.
SendCheck(s) ==
    /\ ConnOnly
    /\ cFault = "none"
    /\ sender[s].pc = "idle"
    /\ sender[s].k < MaxSends
    /\ cmu = "none"
    /\ sender' = [sender EXCEPT ![s] =
                     IF cclosed
                     THEN [pc |-> "idle", k |-> @.k + 1, ret |-> "ErrConnectionClosed"]
                     ELSE [pc |-> "select", k |-> @.k + 1, ret |-> "none"]]
    /\ UNCHANGED <<sendCh, cFault>>
    /\ SendKeeps

\* Lines 55-57: the send case. A send on the closed SendCh panics; a send
\* into a channel with room puts the data at its end.
SendProceed(s) ==
    /\ ConnOnly
    /\ cFault = "none"
    /\ sender[s].pc = "select"
    /\ \/ /\ chClosed.SendCh
          /\ cFault' = "send on closed channel"
          /\ sender' = [sender EXCEPT ![s].pc = "panic"]
          /\ UNCHANGED sendCh
       \/ /\ ~chClosed.SendCh
          /\ Len(sendCh) < SendChSize
          /\ sendCh' = Append(sendCh, <<s, sender[s].k>>)
          /\ sender' = [sender EXCEPT ![s].pc = "idle", ![s].ret = "nil"]
          /\ UNCHANGED cFault
    /\ SendKeeps

\* Lines 58-59: the timer of time.After fires. The caller is still in the
\* select after 5 s only if no send was possible all that time: SendCh was
\* full and open.
SendTimeout(s) ==
    /\ ConnOnly
    /\ cFault = "none"
    /\ sender[s].pc = "select"
    /\ ~chClosed.SendCh
    /\ Len(sendCh) = SendChSize
    /\ sender' = [sender EXCEPT ![s].pc = "idle", ![s].ret = "ErrSendTimeout"]
    /\ UNCHANGED <<sendCh, cFault>>
    /\ SendKeeps

\* close(ch) in Close: the close of a closed channel panics.
CloseChannels ==
    IF chClosed.CloseCh \/ chClosed.SendCh
    THEN /\ cFault' = "close of closed channel"
         /\ UNCHANGED <<chClosed, chCloses, cclosed>>
    ELSE /\ cclosed' = TRUE
         /\ chClosed' = [CloseCh |-> TRUE, SendCh |-> TRUE]
         /\ chCloses' = [CloseCh |-> chCloses.CloseCh + 1,
                         SendCh |-> chCloses.SendCh + 1]
         /\ UNCHANGED cFault

\* Line 79: c.mu.Lock(). The pump calls Close when it has left its loop.
CloseLock(c) ==
    /\ ConnOnly
    /\ cFault = "none"
    /\ closeCall[c] = "idle"
    /\ c = "pump" => pump = "closing"
    /\ cmu = "none"
    /\ cmu' = c
    /\ closeCall' = [closeCall EXCEPT ![c] = "locked"]
    /\ UNCHANGED <<cclosed, chClosed, chCloses, sendCh, sender, cFault, pump>>

\* (a Close without the closed test)
CloseRun_NoTest(c) ==
    /\ ConnOnly
    /\ cFault = "none"
    /\ closeCall[c] = "locked"
    /\ CloseChannels
    /\ cmu' = "none"
    /\ closeCall' = [closeCall EXCEPT ![c] = "returned"]
    /\ pump' = IF c = "pump" THEN "stopped" ELSE pump
    /\ UNCHANGED <<sendCh, sender>>

\* Lines 82-100 under the lock, and the deferred Unlock.
CloseRun(c) ==
    /\ ConnOnly
    /\ cFault = "none"
    /\ closeCall[c] = "locked"
    /\ IF cclosed
       THEN UNCHANGED <<cclosed, chClosed, chCloses, cFault>>
       ELSE CloseChannels
    /\ cmu' = "none"
    /\ closeCall' = [closeCall EXCEPT ![c] = "returned"]
    /\ pump' = IF c = "pump" THEN "stopped" ELSE pump
    /\ UNCHANGED <<sendCh, sender>>

\* What the pump leaves alone.
PumpKeeps == UNCHANGED <<cmu, cclosed, chClosed, chCloses, closeCall, sender, cFault>>

\* go tc.StartWritePump(), on a connection with a WebSocket or without.
StartWritePump(withConn) ==
    /\ ConnOnly
    /\ cFault = "none"
    /\ pump = "unstarted"
    /\ pump' = IF withConn THEN "running" ELSE "drain"
    /\ UNCHANGED sendCh
    /\ PumpKeeps

\* StartWritePump takes a message from SendCh: the drain goroutine of a
\* connection without WebSocket discards it; the write pump writes it and
\* leaves its loop when the write fails.
PumpReceive(ok) ==
    /\ ConnOnly
    /\ cFault = "none"
    /\ pump \in {"drain", "running"}
    /\ sendCh # <<>>
    /\ sendCh' = Tail(sendCh)
    /\ pump' = IF pump = "running" /\ ~ok THEN "closing" ELSE pump
    /\ PumpKeeps

\* The pump leaves its loop: SendCh is closed and empty, CloseCh is closed,
\* or the ping failed. The write pump goes on to its deferred c.Close(); the
\* drain goroutine ends when CloseCh is closed.
PumpLeave ==
    /\ ConnOnly
    /\ cFault = "none"
    /\ pump \in {"drain", "running"}
    /\ IF pump = "running"
       THEN pump' = "closing"
       ELSE /\ chClosed.CloseCh
            /\ pump' = "stopped"
    /\ UNCHANGED sendCh
    /\ PumpKeeps

ConnInitVars ==
    /\ cmu = "none"
    /\ cclosed = FALSE
    /\ chClosed = [CloseCh |-> FALSE, SendCh |-> FALSE]
    /\ chCloses = [CloseCh |-> 0, SendCh |-> 0]
    /\ sendCh = <<>>
    /\ sender = [s \in SendCallers |-> [pc |-> "idle", k |-> 0, ret |-> "none"]]
    /\ closeCall = [c \in CloseCallers |-> "idle"]
    /\ pump = "unstarted"
    /\ cFault = "none"

ConnNext ==
    \/ \E s \in SendCallers : SendCheck(s)
    \/ \E s \in SendCallers : SendProceed(s)
    \/ \E s \in SendCallers : SendTimeout(s)
    \/ \E c \in CloseCallers : CloseLock(c)
    \/ \E c \in CloseCallers : CloseRun(c)
    \/ \E withConn \in BOOLEAN : StartWritePump(withConn)
    \/ \E ok \in BOOLEAN : PumpReceive(ok)
    \/ PumpLeave

\* ================================================ client connection loop

maxReconnectAttempts == 5
\* reconnectInterval, in seconds
reconnectInterval == 3

\* The Connect calls of one run of the client.
MaxConnects == 7

ClientOnly ==
    UNCHANGED <<regVars, respVars, fwVars, codecVars, connVars, poolVars,
                userVars, labelVars, plainVars>>

\* The phrases isNonRetryableError looks for in the error text.
NonRetryablePhrases ==
    { "subdomain is already taken", "subdomain is reserved",
      "invalid subdomain", "authentication", "Invalid authentication token" }

\* The errors Connect returns in the model, each with the phrases its text
\* contains: the three subdomain refusals and an authentication failure of
\* the server, and two failures of the network.
ConnectErrors ==
    { [text |-> "subdomain is already taken",
       has  |-> {"subdomain is already taken"}],
      [text |-> "subdomain is reserved", has |-> {"subdomain is reserved"}],
      [text |-> "invalid subdomain format", has |-> {"invalid subdomain"}],
      [text |-> "Invalid authentication token",
       has  |-> {"authentication", "Invalid authentication token"}],
      [text |-> "connection refused", has |-> {}],
      [text |-> "i/o timeout", has |-> {}] }

NoError == [text |-> "nil", has |-> {}]

\* isNonRetryableError: strings.Contains for each of the phrases
isNonRetryableError(err) == err.has \cap NonRetryablePhrases # {}

\* connector.Connect() returns `result`, and what the loop does with it up
\* to its next blocking point (lines 240-261). `fails` counts the Connect
\* calls that have failed in a row, `losses` the losses of the connection
\* with no failed Connect between them.
Connect(result) ==
    /\ ClientOnly
    /\ cli.pc = "connect"
    /\ cli.connects < MaxConnects
    /\ IF result = NoError
       THEN cli' = [cli EXCEPT !.pc = "connected", !.reconnectAttempts = 0,
                               !.fails = 0, !.connects = @ + 1]
       ELSE IF isNonRetryableError(result)
       THEN cli' = [cli EXCEPT !.pc = "exit",
                               !.ret = "failed to connect: " \o result.text,
                               !.fails = @ + 1, !.connects = @ + 1, !.losses = 0]
       ELSE IF cli.reconnectAttempts + 1 >= maxReconnectAttempts
       THEN cli' = [cli EXCEPT !.pc = "exit",
                               !.ret = "failed to connect after 5 attempts: "
                                           \o result.text,
                               !.reconnectAttempts = @ + 1,
                               !.fails = @ + 1, !.connects = @ + 1, !.losses = 0]
       ELSE cli' = [cli EXCEPT !.pc = "wait", !.reconnectAttempts = @ + 1,
                               !.fails = @ + 1, !.connects = @ + 1, !.losses = 0]

\* case <-time.After(reconnectInterval): continue
RetryTimer ==
    /\ ClientOnly
    /\ cli.pc = "wait"
    /\ cli' = [cli EXCEPT !.pc = "connect", !.delay = reconnectInterval]

\* case <-quit, while waiting to retry or while connected: return nil
Quit ==
    /\ ClientOnly
    /\ cli.pc \in {"wait", "connected"}
    /\ cli' = [cli EXCEPT !.pc = "exit", !.ret = "nil"]

\* case <-disconnected: the connection is lost (lines 361-377)
Disconnected ==
    /\ ClientOnly
    /\ cli.pc = "connected"
    /\ IF cli.reconnectAttempts + 1 >= maxReconnectAttempts
       THEN cli' = [cli EXCEPT !.pc = "exit",
                               !.ret = "connection lost after 5 reconnect attempts",
                               !.reconnectAttempts = @ + 1, !.losses = @ + 1]
       ELSE cli' = [cli EXCEPT !.pc = "wait", !.reconnectAttempts = @ + 1,
                               !.losses = @ + 1]

ClientInitVars ==
    cli = [pc |-> "connect", reconnectAttempts |-> 0, ret |-> "none",
           fails |-> 0, losses |-> 0, connects |-> 0, delay |-> 0]

ClientNext ==
    \/ \E result \in ConnectErrors \cup {NoError} : Connect(result)
    \/ RetryTimer
    \/ Quit
    \/ Disconnected

\* ============================================================ WorkerPool

\* The capacity of jobQueue in the model.
JobQueueSize == 1
\* The Submit calls of one caller.
MaxSubmits == 2

Submitters == {"u1", "u2"}
\* A nil job, written as the caller's name with call number 0.
NilJob(u) == <<u, 0>>

\* The goroutines that call Close.
PoolClosers == {"x", "y"}

PoolOnly ==
    UNCHANGED <<regVars, respVars, fwVars, codecVars, connVars, clientVars, userVars,
                labelVars, plainVars>>

\* Lines 54-63: the nil test, and the closed test under the read lock. The
\* job of the call is <<u, k>>, k counting the calls of u that pass a job.
SubmitCheck(u, isNil) ==
    /\ PoolOnly
    /\ wp.fault = "none"
    /\ wp.submit[u].pc = "idle"
    /\ wp.submit[u].k < MaxSubmits
    /\ wp.mu = "free"
    /\ IF isNil
       THEN wp' = [wp EXCEPT !.submit[u] =
                      [pc |-> "idle", k |-> @.k + 1, job |-> NilJob(u), ret |-> "false"]]
       ELSE IF wp.closed
       THEN wp' = [wp EXCEPT !.submit[u] =
                      [pc |-> "idle", k |-> @.k + 1, job |-> <<u, @.k + 1>>,
                       ret |-> "false"]]
       ELSE wp' = [wp EXCEPT !.submit[u] =
                      [pc |-> "select", k |-> @.k + 1, job |-> <<u, @.k + 1>>,
                       ret |-> "none"]]

\* Lines 66-74: the select. A send on the closed jobQueue panics; with room
\* the job is queued; with the queue full the default case starts the job on
\* a goroutine of its own.
SubmitSelect(u) ==
    /\ PoolOnly
    /\ wp.fault = "none"
    /\ wp.submit[u].pc = "select"
    /\ IF wp.queueClosed
       THEN wp' = [wp EXCEPT !.fault = "send on closed channel",
                             !.submit[u].pc = "panic"]
       ELSE IF Len(wp.jobQueue) < JobQueueSize
       THEN wp' = [wp EXCEPT !.jobQueue = Append(@, wp.submit[u].job),
                             !.queued = @ \cup {wp.submit[u].job},
                             !.submit[u].pc = "idle",
                             !.submit[u].ret = "true"]
       ELSE wp' = [wp EXCEPT !.spawned = @ \cup {wp.submit[u].job},
                             !.submit[u].pc = "idle",
                             !.submit[u].ret = "false"]

\* worker: for job := range p.jobQueue { job() }
WorkerRun ==
    /\ PoolOnly
    /\ wp.fault = "none"
    /\ wp.worker = "running"
    /\ wp.jobQueue # <<>>
    /\ wp' = [wp EXCEPT !.jobQueue = Tail(@),
                        !.ranByPool = @ \cup {Head(wp.jobQueue)}]

\* worker: the range ends on the closed, empty jobQueue; wg.Done()
WorkerExit ==
    /\ PoolOnly
    /\ wp.fault = "none"
    /\ wp.worker = "running"
    /\ wp.queueClosed
    /\ wp.jobQueue = <<>>
    /\ wp' = [wp EXCEPT !.worker = "done"]

\* The goroutine of `go job()` runs the job.
OneShotRun ==
    /\ PoolOnly
    /\ wp.fault = "none"
    /\ \E j \in wp.spawned \ wp.ranAlone :
           wp' = [wp EXCEPT !.ranAlone = @ \cup {j}]

\* Close, lines 100-103: the first call enters once.Do and sets closed
\* under the lock.
PoolCloseMark(c) ==
    /\ PoolOnly
    /\ wp.fault = "none"
    /\ wp.close[c] = "idle"
    /\ wp.once = "idle"
    /\ wp.mu = "free"
    /\ wp' = [wp EXCEPT !.closed = TRUE, !.once = "running", !.close[c] = "marked"]

\* Close, line 105: close(p.jobQueue)
PoolCloseQueue(c) ==
    /\ PoolOnly
    /\ wp.fault = "none"
    /\ wp.close[c] = "marked"
    /\ wp' = [wp EXCEPT !.queueClosed = TRUE, !.queueCloses = @ + 1,
                        !.close[c] = "waiting"]

\* Close, line 106, with the wait left out.
PoolCloseWait_NoWait(c) ==
    /\ PoolOnly
    /\ wp.fault = "none"
    /\ wp.close[c] = "waiting"
    /\ wp' = [wp EXCEPT !.once = "done", !.close[c] = "returned"]

\* Close, line 106: p.wg.Wait() returns when the workers have ended; the
\* function given to once.Do returns and so does Close.
PoolCloseWait(c) ==
    /\ PoolOnly
    /\ wp.fault = "none"
    /\ wp.close[c] = "waiting"
    /\ wp.worker = "done"
    /\ wp' = [wp EXCEPT !.once = "done", !.close[c] = "returned"]

\* Close, line 100, of a later call: once.Do returns, after the first call's
\* function has returned, without running anything.
PoolCloseAgain(c) ==
    /\ PoolOnly
    /\ wp.fault = "none"
    /\ wp.close[c] = "idle"
    /\ wp.once = "done"
    /\ wp' = [wp EXCEPT !.close[c] = "returned"]

PoolInitVars ==
    wp = [closed |-> FALSE, mu |-> "free", jobQueue |-> <<>>,
          queueClosed |-> FALSE, queueCloses |-> 0, worker |-> "running",
          once |-> "idle", close |-> [c \in PoolClosers |-> "idle"],
          submit |-> [u \in Submitters |->
                         [pc |-> "idle", k |-> 0, job |-> NilJob(u), ret |-> "none"]],
          queued |-> {}, spawned |-> {}, ranByPool |-> {}, ranAlone |-> {}, fault |-> "none"]

PoolNext ==
    \/ \E u \in Submitters, isNil \in BOOLEAN : SubmitCheck(u, isNil)
    \/ \E u \in Submitters : SubmitSelect(u)
    \/ WorkerRun
    \/ WorkerExit
    \/ OneShotRun
    \/ \E c \in PoolClosers : PoolCloseMark(c)
    \/ \E c \in PoolClosers : PoolCloseQueue(c)
    \/ \E c \in PoolClosers : PoolCloseWait(c)
    \/ \E c \in PoolClosers : PoolCloseAgain(c)

\* =================================================== callers of the pool

UserOnly ==
    UNCHANGED <<regVars, respVars, fwVars, codecVars, connVars, clientVars, poolVars,
                labelVars, plainVars>>

\* The accept loop is one goroutine.
Acceptor == "u1"

\* The job of the call that u has in progress.
JobOf(u) == <<u, users.call[u].k0 + 1>>
\* The caller has not yet called Submit / Submit has returned to it.
SubmitPending(u) == wp.submit[u].k = users.call[u].k0
SubmitReturned(u) ==
    /\ wp.submit[u].k = users.call[u].k0 + 1
    /\ wp.submit[u].pc = "idle"

Ind(b) == IF b THEN 1 ELSE 0
\* How many times the function passed as the job has been executed: by a
\* worker, by the goroutine of Submit's default case, by the goroutine the
\* accept loop starts, by SubmitWait itself.
Executions(j) ==
    Ind(j \in wp.ranByPool) + Ind(j \in wp.ranAlone)
        + Ind(j \in users.handled) + Ind(j \in users.direct)

RECURSIVE SumExecutions(_)
SumExecutions(js) ==
    IF js = {} THEN 0
    ELSE LET j == CHOOSE x \in js : TRUE
         IN  Executions(j) + SumExecutions(js \ {j})

\* listener.go 114: l.wg.Add(1) for the accepted connection
AcceptAdd(u) ==
    /\ UserOnly
    /\ wp.fault = "none"
    /\ users.loop = "running"
    /\ users.call[u].pc = "idle"
    /\ wp.submit[u].pc = "idle"
    /\ wp.submit[u].k < MaxSubmits
    /\ users' = [users EXCEPT !.call[u] = [pc |-> "accept", k0 |-> wp.submit[u].k],
                              !.adds = @ + 1,
                              !.accepted = @ \cup {<<u, wp.submit[u].k + 1>>}]

\* listener.go 115-122: Submit has returned; on false the loop starts a
\* goroutine of its own for the connection.
AcceptSubmitted(u) ==
    /\ UserOnly
    /\ wp.fault = "none"
    /\ users.call[u].pc = "accept"
    /\ SubmitReturned(u)
    /\ users' = [users EXCEPT !.call[u].pc = "idle",
                              !.fallback = IF wp.submit[u].ret = "false"
                                           THEN @ \cup {JobOf(u)} ELSE @]

\* listener.go 121, 127-128: the goroutine runs handleConnection, which ends
\* with l.wg.Done().
HandleConnectionFallback ==
    /\ UserOnly
    /\ wp.fault = "none"
    /\ \E j \in users.fallback \ users.handled :
           users' = [users EXCEPT !.handled = @ \cup {j}]

\* listener.go 84, 88-89: the loop sees stopCh closed and returns; its
\* deferred l.wg.Done() runs.
AcceptStop ==
    /\ UserOnly
    /\ wp.fault = "none"
    /\ users.loop = "running"
    /\ users.call[Acceptor].pc = "idle"
    /\ users' = [users EXCEPT !.loop = "stopped"]

\* listener.go 76, 114, 84, 128: the counter of l.wg, one Add for the loop
\* and one for each accepted connection, one Done when the loop returns and
\* one at the end of each handleConnection.
WgCounter ==
    Ind(users.loop = "running") + users.adds - SumExecutions(users.accepted)

\* SubmitWait, part_003 78-88: a non-nil job is wrapped and passed to Submit.
SubmitWaitCall(u) ==
    /\ UserOnly
    /\ wp.fault = "none"
    /\ users.call[u].pc = "idle"
    /\ wp.submit[u].pc = "idle"
    /\ wp.submit[u].k < MaxSubmits
    /\ users' = [users EXCEPT !.call[u] = [pc |-> "wait", k0 |-> wp.submit[u].k]]

\* SubmitWait, part_003 88-93: after true it waits for done, which the
\* wrapped job closes when the job has run; after false it runs the job
\* itself.
SubmitWaitDone(u) ==
    /\ UserOnly
    /\ wp.fault = "none"
    /\ users.call[u].pc = "wait"
    /\ SubmitReturned(u)
    /\ wp.submit[u].ret = "true" => JobOf(u) \in wp.ranByPool
    /\ users' = [users EXCEPT !.call[u].pc = "idle",
                              !.direct = IF wp.submit[u].ret = "false"
                                         THEN @ \cup {JobOf(u)} ELSE @,
                              !.returned = @ \cup {JobOf(u)}]

UserInitVars ==
    users = [call |-> [u \in Submitters |-> [pc |-> "idle", k0 |-> 0]],
             loop |-> "running", adds |-> 0, accepted |-> {}, fallback |-> {},
             handled |-> {}, direct |-> {}, returned |-> {}]

\* The pool's own goroutines and its Close.
PoolRuns ==
    \/ WorkerRun
    \/ WorkerExit
    \/ OneShotRun
    \/ \E c \in PoolClosers : PoolCloseMark(c)
    \/ \E c \in PoolClosers : PoolCloseQueue(c)
    \/ \E c \in PoolClosers : PoolCloseWait(c)
    \/ \E c \in PoolClosers : PoolCloseAgain(c)

\* Submit as called from a call in progress.
SubmitBy(u) ==
    \/ users.call[u].pc # "idle" /\ SubmitPending(u) /\ SubmitCheck(u, FALSE)
    \/ SubmitSelect(u)

ListenerNext ==
    \/ AcceptAdd(Acceptor)
    \/ SubmitBy(Acceptor)
    \/ AcceptSubmitted(Acceptor)
    \/ HandleConnectionFallback
    \/ AcceptStop
    \/ PoolRuns

SubmitWaitNext ==
    \/ \E u \in Submitters : SubmitWaitCall(u)
    \/ \E u \in Submitters : SubmitBy(u)
    \/ \E u \in Submitters : SubmitWaitDone(u)
    \/ PoolRuns

\* ===================================================== subdomain labels

LabelOnly ==
    UNCHANGED <<regVars, respVars, fwVars, codecVars, connVars, clientVars, poolVars,
                userVars, plainVars>>

\* The longest of the enumerated strings.
MaxLabelLen == 4
\* A lower-case letter, a digit, the hyphen, a dot.
LabelAlphabet == {"a", "9", "-", "."}

RECURSIVE Strings(_)
\* Every string of length at most n over LabelAlphabet.
Strings(n) ==
    IF n = 0 THEN {<<>>}
    ELSE LET shorter == Strings(n - 1)
         IN  shorter \cup {Append(s, c) : s \in {x \in shorter : Len(x) = n - 1},
                                          c \in LabelAlphabet}

\* Strings at the upper limit of the length: 62, 63 and 64 characters, of
\* letters only, with a hyphen inside, ending in a hyphen.
LongLabels ==
    {Rep("a", n) : n \in 62..64}
        \cup {Rep("a", n) \o <<"-", "a">> : n \in 60..62}
        \cup {Rep("a", n) \o <<"-">> : n \in 61..63}

LabelInputs == Strings(MaxLabelLen) \cup LongLabels \cup CustomSubdomains

\* A call ValidateSubdomain(s).
ValidateCall(s) ==
    /\ LabelOnly
    /\ label' = [fn |-> "ValidateSubdomain", arg |-> s, ok |-> ValidateSubdomain(s)]

\* The lengths the registry passes to GenerateSubdomain, and 0.
GenerateLengths == {0, DefaultSubdomainLength, FallbackLength}

\* A call GenerateSubdomain(length).
GenerateCall(length) ==
    /\ LabelOnly
    /\ \E s \in GenerateSubdomain(length) :
           label' = [fn |-> "GenerateSubdomain", arg |-> s, ok |-> TRUE]

LabelInitVars == label = [fn |-> "none", arg |-> <<>>, ok |-> FALSE]

LabelNext ==
    \/ \E s \in LabelInputs : ValidateCall(s)
    \/ \E length \in GenerateLengths : GenerateCall(length)

\* ======================================== the FrameWriter without latch
\* The FrameWriter whose WriteFrame writes to conn itself when the queue is
\* full. Its queue has QueueSize places and its maxBatch is MaxBatch.

PlainOnly ==
    UNCHANGED <<regVars, respVars, fwVars, codecVars, connVars, clientVars, poolVars,
                userVars, labelVars>>

PlainProducers == {"q1", "q2"}
\* The goroutines that call protocol.WriteFrame on conn: writeLoop, a caller
\* of Flush, the callers of WriteFrame.
PlainTasks == {"loop", "flush"} \cup PlainProducers

\* protocol.WriteFrame on a frame with a payload calls conn.Write three
\* times: the length, the type, the payload.
FrameWrites == 3

NotWriting == [frames |-> <<>>, part |-> 0]

\* One conn.Write of goroutine t, inside protocol.WriteFrame: the next part of
\* the frame it is writing. (The writer ignores what the write returns.)
\* Of the bytes on conn the model keeps the last part written, and whether
\* some part did not follow the part before it of the same frame.
PlainConnWrite(t) ==
    /\ PlainOnly
    /\ pw.fault = "none"
    /\ pw.job[t].frames # <<>>
    /\ LET f == Head(pw.job[t].frames)
           n == pw.job[t].part + 1
       IN  pw' = [pw EXCEPT !.last = <<f, n>>,
                            !.torn = \/ @
                                     \/ n > 1 /\ pw.last # <<f, n - 1>>
                                     \/ n = 1 /\ pw.last[2] # FrameWrites,
                            !.job[t] = IF n = FrameWrites
                                       THEN [frames |-> Tail(@.frames), part |-> 0]
                                       ELSE [@ EXCEPT !.part = n]]

\* flushBatchLocked begins, called by t with w.mu held.
PlainFlushBegin(t, b, next) ==
    IF b = <<>>
    THEN pw' = [pw EXCEPT !.batch = b, !.loop.pc = IF t = "loop" THEN next ELSE @]
    ELSE pw' = [pw EXCEPT !.batch = b, !.mu = t, !.job[t].frames = b,
                          !.loop.pc = IF t = "loop" THEN "flush" ELSE @,
                          !.loop.next = IF t = "loop" THEN next ELSE @]

\* flushBatchLocked has written the batch: w.batch = w.batch[:0], and the
\* caller unlocks w.mu.
PlainFlushEnd(t) ==
    /\ PlainOnly
    /\ pw.fault = "none"
    /\ pw.mu = t
    /\ pw.job[t].frames = <<>>
    /\ pw' = [pw EXCEPT !.batch = <<>>, !.mu = "free",
                        !.loop.pc = IF t = "loop" THEN pw.loop.next ELSE @]

\* writeLoop, case frame, ok := <-w.queue with ok true.
PlainLoopReceive ==
    /\ PlainOnly
    /\ pw.fault = "none"
    /\ pw.loop.pc = "select"
    /\ pw.queue # <<>>
    /\ pw' = [pw EXCEPT !.queue = Tail(@), !.loop.pc = "append",
                        !.loop.frame = Head(pw.queue)]

\* writeLoop, lines 52-58: lock, append, flush when the batch is full.
PlainLoopAppend ==
    /\ PlainOnly
    /\ pw.fault = "none"
    /\ pw.loop.pc = "append"
    /\ pw.mu = "free"
    /\ LET b == Append(pw.batch, pw.loop.frame)
       IN  IF Len(b) >= MaxBatch
           THEN PlainFlushBegin("loop", b, "select")
           ELSE pw' = [pw EXCEPT !.batch = b, !.loop.pc = "select"]

\* writeLoop, case <-ticker.C
PlainLoopTick ==
    /\ PlainOnly
    /\ pw.fault = "none"
    /\ pw.loop.pc = "select"
    /\ pw.mu = "free"
    /\ pw.batch # <<>>
    /\ PlainFlushBegin("loop", pw.batch, "select")

\* writeLoop, the receive from the closed and empty queue, or case <-w.done:
\* flush and return.
PlainLoopExit ==
    /\ PlainOnly
    /\ pw.fault = "none"
    /\ pw.loop.pc = "select"
    /\ (pw.queueClosed /\ pw.queue = <<>>) \/ pw.doneClosed
    /\ pw.mu = "free"
    /\ PlainFlushBegin("loop", pw.batch, "returned")

\* FrameWriter.Flush: flushBatchLocked under the lock.
PlainFlush ==
    /\ PlainOnly
    /\ pw.fault = "none"
    /\ pw.mu = "free"
    /\ pw.batch # <<>>
    /\ PlainFlushBegin("flush", pw.batch, "select")

\* WriteFrame, lines 90-95: the closed test under the lock. The frame of the
\* call is <<p, k>>, k counting the calls of p.
PlainWriteFrameCheck(p) ==
    /\ PlainOnly
    /\ pw.fault = "none"
    /\ pw.prod[p].pc = "idle"
    /\ pw.prod[p].k < MaxFrames
    /\ pw.mu = "free"
    /\ pw' = [pw EXCEPT !.prod[p] =
                 [pc  |-> IF pw.closed THEN "idle" ELSE "select",
                  k   |-> @.k + 1,
                  ret |-> IF pw.closed THEN "writer closed" ELSE "none"]]

\* WriteFrame, lines 97-104: the select. The send is taken when the queue
\* has room, and panics when the queue is closed; the done case when done
\* is closed; the default case, with neither ready, writes the frame to
\* conn from the caller's goroutine.
PlainWriteFrameSelect(p) ==
    /\ PlainOnly
    /\ pw.fault = "none"
    /\ pw.prod[p].pc = "select"
    /\ \/ /\ pw.queueClosed
          /\ pw' = [pw EXCEPT !.fault = "send on closed channel",
                              !.prod[p].pc = "panic"]
       \/ /\ ~pw.queueClosed
          /\ Len(pw.queue) < QueueSize
          /\ pw' = [pw EXCEPT !.queue = Append(@, <<p, pw.prod[p].k>>),
                              !.prod[p].pc = "idle", !.prod[p].ret = "nil"]
       \/ /\ pw.doneClosed
          /\ pw' = [pw EXCEPT !.prod[p].pc = "idle",
                              !.prod[p].ret = "writer closed"]
       \/ /\ ~pw.queueClosed
          /\ ~pw.doneClosed
          /\ Len(pw.queue) >= QueueSize
          /\ pw' = [pw EXCEPT !.prod[p].pc = "direct",
                              !.job[p].frames = <<<<p, pw.prod[p].k>>>>]

\* WriteFrame, line 103: protocol.WriteFrame has returned.
PlainWriteFrameDirectEnd(p) ==
    /\ PlainOnly
    /\ pw.fault = "none"
    /\ pw.prod[p].pc = "direct"
    /\ pw.job[p].frames = <<>>
    /\ pw' = [pw EXCEPT !.prod[p].pc = "idle", !.prod[p].ret = "nil"]

\* Close, lines 108-114: the closed test and w.closed = true under the lock.
PlainCloseCheck ==
    /\ PlainOnly
    /\ pw.fault = "none"
    /\ pw.closer = "idle"
    /\ pw.mu = "free"
    /\ pw' = [pw EXCEPT !.closed = TRUE,
                        !.closer = IF pw.closed THEN "returned" ELSE "queue"]

\* Close, line 116: close(w.queue)
PlainCloseQueue ==
    /\ PlainOnly
    /\ pw.fault = "none"
    /\ pw.closer = "queue"
    /\ pw' = [pw EXCEPT !.queueClosed = TRUE, !.closer = "done"]

\* Close, line 117: close(w.done)
PlainCloseDone ==
    /\ PlainOnly
    /\ pw.fault = "none"
    /\ pw.closer = "done"
    /\ pw' = [pw EXCEPT !.doneClosed = TRUE, !.closer = "returned"]

PlainInitVars ==
    pw = [queue |-> <<>>, queueClosed |-> FALSE, doneClosed |-> FALSE,
          batch |-> <<>>, mu |-> "free", closed |-> FALSE,
          last |-> <<<<"none", 0>>, FrameWrites>>, torn |-> FALSE,
          job |-> [t \in PlainTasks |-> NotWriting],
          loop |-> [pc |-> "select", next |-> "select", frame |-> <<>>],
          prod |-> [p \in PlainProducers |-> [pc |-> "idle", k |-> 0, ret |-> "none"]],
          closer |-> "idle", fault |-> "none"]

PlainNext ==
    \/ \E t \in PlainTasks : PlainConnWrite(t)
    \/ \E t \in {"loop", "flush"} : PlainFlushEnd(t)
    \/ PlainLoopReceive
    \/ PlainLoopAppend
    \/ PlainLoopTick
    \/ PlainLoopExit
    \/ PlainFlush
    \/ \E p \in PlainProducers : PlainWriteFrameCheck(p)
    \/ \E p \in PlainProducers : PlainWriteFrameSelect(p)
    \/ \E p \in PlainProducers : PlainWriteFrameDirectEnd(p)
    \/ PlainCloseCheck
    \/ PlainCloseQueue
    \/ PlainCloseDone

\* ========================================================= specifications

Init ==
    /\ RegInitVars /\ RespInitVars /\ FwInitVars /\ CodecInitVars
    /\ ConnInitVars /\ ClientInitVars /\ PoolInitVars
    /\ UserInitVars /\ LabelInitVars /\ PlainInitVars

\* The registry.
SpecReg == Init /\ [][RegNext]_vars

\* The response handler.
SpecResp == Init /\ [][RespNext]_vars

\* The frame codec: one stream, its writers and its reader.
SpecCodec == Init /\ [][CodecNext]_vars

\* The two places where a frame's buffer goes back to the pool, each on its
\* own: the codec while the writer is as constructed, or the writer while
\* no frame has been written or read.
BuffersNext ==
    \/ FwInitVars /\ CodecNext
    \/ CodecInitVars /\ FwNext

SpecBuffers == Init /\ [][BuffersNext]_vars

\* One connection of the registry.
SpecConn == Init /\ [][ConnNext]_vars

\* The connection loop of the client.
SpecClient == Init /\ [][ClientNext]_vars

\* The worker pool.
SpecPool == Init /\ [][PoolNext]_vars

\* The accept loop of the listener, handing its connections to the pool.
SpecListener == Init /\ [][ListenerNext]_vars

\* Callers of SubmitWait.
SpecSubmitWait == Init /\ [][SubmitWaitNext]_vars

\* Calls of the subdomain functions.
SpecLabel == Init /\ [][LabelNext]_vars

\* The FrameWriter without latch.
SpecPlain == Init /\ [][PlainNext]_vars

\* The batching frame writer.
SpecFW == Init /\ [][FwNext]_vars

\* The batching frame writer, Close called more than once.
SpecFWClose == Init /\ [][FwCloseNext]_vars

\* The batching frame writer with its goroutines scheduled: the loop and a
\* caller inside Close or WriteFrame take their next step when they can.
FairSpecFW ==
    /\ Init /\ [][FwNext]_vars
    /\ WF_vars(LoopReceive) /\ WF_vars(LoopAppend) /\ WF_vars(LoopBatchTick)
    /\ WF_vars(LoopHeartbeatControl) /\ WF_vars(LoopExit)
    /\ \A c \in Closers :
           WF_vars(CloseQueue(c)) /\ WF_vars(CloseDrain(c)) /\ WF_vars(CloseDone(c))
    /\ \A p \in Producers :
           WF_vars(WriteFrameRefused(p)) /\ WF_vars(WriteFrameSelect(p))

\* The response handler with its scheduling: time passes, and the cleanup
\* goroutine runs whenever one of the cases of its select is ready.
FairSpecResp ==
    /\ Init
    /\ [][RespNext]_vars
    /\ WF_vars(RespTick)
    /\ WF_vars(cleanupExpiredChannels)
    /\ WF_vars(cleanupLoopStop)

\* ================================================================= properties

\* ---- C1: no two connections that are registered and not yet unregistered
\* hold the same subdomain, and the registry has one entry for each of them.
LiveConns == {i \in DOMAIN conns : ~conns[i].closed}

C1_UniqueSubdomains ==
    /\ \A i, j \in LiveConns :
          i # j => conns[i].Subdomain # conns[j].Subdomain
    /\ Cardinality(DOMAIN tunnels) = Cardinality(LiveConns)

\* ---- C2: a SendResponse whose request id has no pending entry changes
\* neither the pending-request map nor any reply channel, and the caller is
\* left outside the call.
C2_UnknownIdDropped ==
    [][\A s \in Senders, r \in ReqIDs :
          (SendResponseLookup(s, r) /\ r \notin DOMAIN channels)
              => UNCHANGED <<channels, chans, snd>>]_vars

\* A call has just ended for want of an entry while another request's reply
\* is waiting in its slot.
C2_Witness ==
    /\ sndLast = "notfound"
    /\ \E r \in DOMAIN channels : chans[channels[r].ch].buf # <<>>
    /\ DOMAIN channels # ReqIDs

\* ---- C3: no send is ever performed on a reply channel that has been
\* closed.
C3_NoSendOnClosed == respFault # "send on closed channel"

\* ---- C4: at most one response is ever delivered into a reply channel.
C4_AtMostOneDelivery == \A c \in DOMAIN chans : chans[c].sent <= 1

\* ---- C5: a reply channel is never closed twice, and a request id never
\* has more than one open reply channel.
OpenSlots(r) == {c \in DOMAIN chans : chans[c].rid = r /\ ~chans[c].closed}

C5_OneOpenSlot ==
    /\ respFault # "close of closed channel"
    /\ \A r \in ReqIDs : Cardinality(OpenSlots(r)) <= 1

\* ---- C6: a sweep removes exactly the entries older than 30 s and leaves
\* the others as they are ...
C6_SweepStep ==
    cleanupExpiredChannels =>
        \A r \in DOMAIN channels :
            IF channels[r].age > ExpirySec
            THEN r \notin DOMAIN channels'
            ELSE /\ r \in DOMAIN channels'
                 /\ channels'[r] = channels[r]
                 /\ chans'[channels[r].ch] = chans[channels[r].ch]

\* ... and (the model makes finitely many entries) the pending-request map
\* is in the end empty for good, in a process that has not panicked.
C6_Original ==
    /\ [][C6_SweepStep]_vars
    /\ <>[](DOMAIN channels = {} \/ ~Alive)

\* C6 as amended: the same, for a handler that has not been closed.
C6_SweepUntilClosed ==
    /\ [][C6_SweepStep]_vars
    /\ <>[](DOMAIN channels = {} \/ ~Alive \/ stopClosed)

\* The sweeper has just removed an expired entry and left a younger one.
C6_Witness ==
    /\ Alive
    /\ ~stopClosed
    /\ ~tickPending
    /\ \E c \in DOMAIN chans :
          /\ chans[c].closed
          /\ chans[c].rid \notin DOMAIN channels
    /\ \E r \in DOMAIN channels : channels[r].age = ExpirySec

\* ---------------------------------------------------------------- C7
\* C7: the frames of one producer reach the transport in the order the
\* producer submitted them: on conn, a frame of an earlier WriteFrame call
\* of a producer is never behind a frame of a later call of that producer.
C7_ProducerOrder ==
    \A i, j \in 1..Len(wire) :
        (i < j /\ wire[i][1] \in Producers /\ wire[i][1] = wire[j][1])
            => wire[i][2] < wire[j][2]

\* ---------------------------------------------------------------- C8
\* A call of WriteFrame that starts with the error latched: it is refused at
\* the closed test, and the refused call returns the latched error; the queue is
\* not touched.
C8_RefusedStep ==
    \A p \in Producers :
        /\ (WriteFrameCheck(p) /\ writeErr # "nil")
               => (prod'[p].pc = "refused" /\ queue' = queue)
        /\ (WriteFrameRefused(p) /\ writeErr # "nil")
               => (prod'[p].ret = writeErr /\ queue' = queue)

\* The latch: once set, writeErr stays; the handler is started in the step
\* that sets writeErr, when there is one, and in no other step.
C8_LatchStep ==
    /\ writeErr # "nil" => writeErr' = writeErr
    /\ cbCalls' # cbCalls =>
           (writeErr = "nil" /\ writeErr' # "nil" /\ onWriteError /\ cbCalls' = 1)
    /\ (writeErr = "nil" /\ writeErr' # "nil" /\ onWriteError) => cbCalls' = 1

C9_WriteFrameVsClose ==
    /\ fwFault # "send on closed channel"
    /\ \A p \in Producers :
           prod[p].ret \in {"none", "nil", "writer closed"} \cup Errs

\* ---------------------------------------------------------------- C10
\* C10: a WriteFrame call that finds the queue full comes back at once with
\* "full": no caller is left waiting in the select on a full queue that is
\* not closed, where only room in the queue or Close lets it go on.
C10_FullReturnsAtOnce ==
    \A p \in Producers :
        ~(/\ prod[p].pc = "select"
          /\ Len(queue) = QueueSize
          /\ ~queueClosed
          /\ ~doneClosed)

\* ---------------------------------------------------------------- C11
\* C11: Close called once or more, one call after or during another, shuts
\* the writer down exactly once: neither channel is closed a second time,
\* and once a call has returned with no call still at work both w.queue and
\* w.done are closed.
C11_ShutdownOnce ==
    /\ fwFault # "close of closed channel"
    /\ ((\E c \in Closers : closer[c] = "returned")
        /\ (\A c \in Closers : closer[c] \in {"idle", "returned"}))
           => (queueClosed /\ doneClosed)

\* ---------------------------------------------------------------- C12
\* C12: once a Close call has returned, the loop comes to its end (unless a
\* panic has ended the process), also when a write error was latched before
\* Close was called.
C12_LoopEndsAfterClose ==
    [](((\E c \in Closers : closer[c] = "returned") /\ Running)
          => <>(loop.pc = "done" \/ ~Running))

\* ---------------------------------------------------------------- C13
\* C13: a frame that is in the queue when Close begins is never written to
\* conn.
C13_QueuedAtCloseNotWritten ==
    \A f \in Range(atClose) : f \notin Range(wire)

\* ---------------------------------------------------------------- C15
\* C15: a Register that asks for a subdomain that is bound returns
\* ErrSubdomainTaken and leaves the registry as it was: the binding, the
\* connection bound (not closed by the call) and Count.
C15_TakenRejected ==
    [][\A c \in CustomSubdomains :
          (RegisterCustom(c) /\ Get(c) # 0)
              => /\ regResult'.err = "ErrSubdomainTaken"
                 /\ UNCHANGED <<tunnels, used, conns>>
                 /\ Count' = Count]_vars

C15_Witness ==
    /\ regResult.op = "Register"
    /\ regResult.err = "ErrSubdomainTaken"
    /\ Count >= 1

\* ---------------------------------------------------------------- C16
\* C16: a Register with a requested subdomain tests syntax first, then the
\* reserved set, then the allocation, and returns the error of the first
\* test that fails; on an error no connection is made and neither map
\* changes.
C16_CheckOrder ==
    [][\A c \in CustomSubdomains :
          RegisterCustom(c)
              => /\ regResult'.err =
                        (IF ~ValidateSubdomain(c) THEN "ErrInvalidSubdomain"
                         ELSE IF IsReserved(c) THEN "ErrReservedSubdomain"
                         ELSE IF c \in used THEN "ErrSubdomainTaken"
                         ELSE "nil")
                 /\ (regResult'.err # "nil"
                        => UNCHANGED <<tunnels, used, conns>>)]_vars

C16_Witness ==
    /\ regResult.op = "Register"
    /\ regResult.err \in {"ErrInvalidSubdomain", "ErrReservedSubdomain"}
    /\ Count >= 1

\* ---------------------------------------------------------------- C17
\* C17: CleanupStale(timeout) closes and unbinds the bound connections idle
\* for the timeout or longer and no other, returns how many they are, and
\* leaves each fresher connection bound and as it was.
C17_EvictsExactlyStale ==
    [][\A timeout \in 1..MaxIdle :
          CleanupStale(timeout)
              => LET stale == {s \in DOMAIN tunnels :
                                  conns[tunnels[s]].idle >= timeout}
                 IN  /\ DOMAIN tunnels' = DOMAIN tunnels \ stale
                     /\ used' = used \ stale
                     /\ \A s \in stale : conns'[tunnels[s]].closed
                     /\ \A s \in DOMAIN tunnels \ stale :
                            /\ tunnels'[s] = tunnels[s]
                            /\ conns'[tunnels[s]] = conns[tunnels[s]]
                     /\ regResult'.conn = Cardinality(stale)]_vars

\* A sweep has evicted a connection idle for exactly the timeout and kept a
\* fresher one.
C17_Witness ==
    /\ regResult.op = "CleanupStale"
    /\ regResult.conn >= 1
    /\ \E i \in DOMAIN conns :
           conns[i].closed /\ conns[i].idle = 1 /\ Get(conns[i].Subdomain) = 0
    /\ \E s \in DOMAIN tunnels :
           ~conns[tunnels[s]].closed /\ conns[tunnels[s]].idle = 0

\* ---------------------------------------------------------------- C18
\* C18: Unregister of a bound subdomain closes the connection and takes the
\* subdomain out of both maps, touching no other binding; Unregister of an
\* unbound subdomain, a second Unregister of the same one among them,
\* changes nothing.
C18_UnregisterIdempotent ==
    [][\A s \in DOMAIN tunnels \cup CustomSubdomains :
          Unregister(s)
              => IF s \in DOMAIN tunnels
                 THEN /\ conns'[tunnels[s]].closed
                      /\ DOMAIN tunnels' = DOMAIN tunnels \ {s}
                      /\ used' = used \ {s}
                      /\ \A r \in DOMAIN tunnels' : tunnels'[r] = tunnels[r]
                 ELSE UNCHANGED <<tunnels, used, conns>>]_vars

C18_Witness ==
    /\ regResult.op = "Unregister"
    /\ \E i \in DOMAIN conns :
           /\ conns[i].closed
           /\ Get(conns[i].Subdomain) = 0
           /\ conns[i].Subdomain \notin used

\* ---------------------------------------------------------------- C19
\* C19: a connection that is closed, by whatever path, is no longer bound:
\* Get never returns a closed connection, and a subdomain marked used is
\* bound to an open connection.
C19_ClosedNeverBound ==
    /\ \A s \in DOMAIN tunnels : ~conns[Get(s)].closed
    /\ \A s \in used : Get(s) # 0 /\ ~conns[Get(s)].closed

\* ---------------------------------------------------------------- C20
\* C20: a Register that asks for a well-formed, unreserved subdomain fails
\* while the subdomain is bound and succeeds once the binding is gone,
\* binding the subdomain to the new, open connection.
C20_ReuseAfterRemoval ==
    [][\A c \in CustomSubdomains :
          (RegisterCustom(c) /\ ValidateSubdomain(c) /\ ~IsReserved(c))
              => IF Get(c) # 0
                 THEN /\ regResult'.err = "ErrSubdomainTaken"
                      /\ tunnels'[c] = tunnels[c]
                 ELSE /\ regResult'.err = "nil"
                      /\ c \in DOMAIN tunnels'
                      /\ tunnels'[c] \notin DOMAIN conns
                      /\ ~conns'[tunnels'[c]].closed]_vars

\* "myapp" was bound, its binding was removed, and a later Register bound
\* it to a new connection.
C20_Witness ==
    /\ regResult.op = "Register"
    /\ regResult.err = "nil"
    /\ regResult.sub = <<"m","y","a","p","p">>
    /\ Get(regResult.sub) = regResult.conn
    /\ \E i \in DOMAIN conns :
           /\ i < regResult.conn
           /\ conns[i].Subdomain = regResult.sub
           /\ conns[i].closed

\* ---------------------------------------------------------------- C21
\* C21: Shutdown closes every connection the registry holds when it is
\* called and leaves both maps empty: afterwards Count is 0, List is empty
\* and Get finds no subdomain.
C21_ShutdownEmpties ==
    [][Shutdown
          => /\ \A i \in Bound : conns'[i].closed
             /\ tunnels' = <<>>
             /\ used' = {}
             /\ Count' = 0
             /\ List' = {}
             /\ \A s \in DOMAIN tunnels \cup CustomSubdomains : Get(s)' = 0]_vars

\* Shutdown has returned, and two connections that were made are closed.
C21_Witness ==
    /\ regResult.op = "Shutdown"
    /\ Count = 0
    /\ used = {}
    /\ Cardinality({i \in DOMAIN conns : conns[i].closed}) >= 2

\* ---------------------------------------------------------------- C22
\* C22: on a stream that carries nothing but frames WriteFrame has written
\* in full, ReadFrame returns for a written frame of one of the seven types
\* a frame of the same type with the same payload bytes, the empty payload
\* among them.
C22_RoundTrip ==
    clean =>
        \A i \in 1..Len(returned) :
            /\ i <= Len(sent)
            /\ sent[i].Type \in FrameTypes
                   => /\ returned[i].err = "nil"
                      /\ returned[i].Type = sent[i].Type
                      /\ returned[i].Payload = sent[i].Payload

\* A Heartbeat frame without payload and a Data frame of MaxFrameSize bytes
\* were written and read back.
C22_Witness ==
    /\ clean
    /\ \E i, j \in 1..Len(returned) :
           /\ returned[i].err = "nil" /\ returned[i].Type = 3
           /\ returned[i].Payload = <<>>
           /\ returned[j].err = "nil" /\ returned[j].Type = 5
           /\ BytesLen(returned[j].Payload) = MaxFrameSize

\* ---------------------------------------------------------------- C23
\* C23: WriteFrame with a payload of more than MaxFrameSize bytes returns the
\* size error and puts no byte on the stream, and with MaxFrameSize bytes or
\* fewer it never returns the size error; ReadFrame returns the size error
\* for a header that declares more than MaxFrameSize, having read the five
\* header bytes and obtained no payload buffer, and for no other header.
C23_OversizeRefused ==
    [][/\ \A f \in FrameInputs, o \in SinkOutcomes :
              WriteFrame(f, o)
                  => IF BytesLen(f.Payload) > MaxFrameSize
                     THEN /\ wrRet'.err = "payload too large"
                          /\ wrRet'.n = 0
                          /\ stream' = stream
                     ELSE /\ wrRet'.err # "payload too large"
                          /\ o = "ok" => wrRet'.err = "nil"
       /\ \A i \in 1..Len(returned') :
              /\ returned'[i].declared > MaxFrameSize
                     => /\ returned'[i].err = "payload too large"
                        /\ returned'[i].used = 5
                        /\ returned'[i].alloc = 0
              /\ returned'[i].err = "payload too large"
                     => returned'[i].declared > MaxFrameSize]_vars

\* WriteFrame has refused a payload of MaxFrameSize + 1 bytes and ReadFrame
\* a header that declares 12 MiB.
C23_Witness ==
    /\ wrRet.err = "payload too large"
    /\ \E i \in 1..Len(returned) :
           /\ returned[i].err = "payload too large"
           /\ returned[i].declared = 12 * 1024 * 1024

\* ---------------------------------------------------------------- C24
\* C24: a ReadFrame that returns a frame has taken five bytes and the
\* payload's length from the stream, in however many reads; frames written
\* one after the other are returned as written and in that order, and when
\* the stream is read to its end none is missing.
C24_ExactConsumption ==
    /\ \A i \in 1..Len(returned) :
           returned[i].err = "nil"
               => returned[i].used = 5 + BytesLen(returned[i].Payload)
    /\ clean =>
           /\ Len(returned) <= Len(sent)
           /\ \A i \in 1..Len(returned) :
                  NewFrame(returned[i].Type, returned[i].Payload) = sent[i]
    /\ (clean /\ stream = <<>> /\ rd.pc # "payload" /\ rd.buf = <<>>)
           => Len(returned) = Len(sent)

\* One frame was read, and the payload of the next is arriving in pieces.
C24_Witness ==
    /\ clean
    /\ Len(returned) >= 1
    /\ returned[1].err = "nil"
    /\ rd.pc = "payload"
    /\ rd.frag >= 1
    /\ rd.buf # <<>>

\* ---------------------------------------------------------------- C25
\* C25: ReadFrame returns no frame whose type byte is outside the seven
\* frame types.
C25_UnknownTypeRejected ==
    \A i \in 1..Len(returned) :
        returned[i].err = "nil" => returned[i].Type \in FrameTypes

\* ---------------------------------------------------------------- C26
\* C26: a buffer checked out by ReadFrame is put back exactly once: it is
\* out while the ReadFrame that took it runs or while the frame returned
\* still holds it, and otherwise it has been put back once, by ReadFrame on
\* its short-payload error or by the frame's first Release. A frame the
\* batching writer has taken is in the queue, in the loop's hand or in the
\* batch with no Release called on it, or it has left them with Release
\* called on it exactly once; the loop leaves none behind when it ends.
C26_ReleasedExactlyOnce ==
    /\ \A id \in 1..Len(pool) :
           pool[id].puts =
               IF id = rd.poolBuf \/ \E i \in 1..Len(frames) : frames[i].poolBuffer = id
               THEN 0 ELSE 1
    /\ \A f \in DOMAIN released :
           released[f] =
               IF f \in Range(queue) \cup Range(batch) \cup {loop.frame}
               THEN 0 ELSE 1
    /\ loop.pc = "done" => queue = <<>> /\ batch = <<>>

\* ReadFrame has put a buffer back on a short payload, and a Release has put
\* back the buffer of a decoded frame.
C26_Witness ==
    /\ Len(pool) >= 2
    /\ \A id \in 1..Len(pool) : pool[id].puts = 1
    /\ \E i \in 1..Len(returned) : returned[i].err = "failed to read payload"
    /\ \E i \in 1..Len(frames) :
           /\ frames[i].poolBuffer = 0
           /\ BytesLen(returned[i].Payload) > 0
           /\ BytesLen(returned[i].Payload) <= SizeLarge

\* ---------------------------------------------------------------- C27
\* C27: a step of Send ends the call with nil exactly when it has put the
\* data at the end of SendCh, and otherwise lets it go on or ends it with
\* ErrConnectionClosed or ErrSendTimeout and SendCh as it was; no Send ends
\* in another way.
C27_SendOutcomes ==
    [][\A s \in SendCallers :
          (SendCheck(s) \/ SendProceed(s) \/ SendTimeout(s))
              => /\ sender'[s].pc \in {"idle", "select"}
                 /\ sender'[s].ret \in {"none", "nil", "ErrConnectionClosed",
                                        "ErrSendTimeout"}
                 /\ sender'[s].ret = "nil"
                        <=> sendCh' = Append(sendCh, <<s, sender'[s].k>>)
                 /\ sender'[s].ret # "nil" => sendCh' = sendCh]_vars

\* ---------------------------------------------------------------- C28
\* C28: however many goroutines call Close, CloseCh and SendCh are each
\* closed once, by the first call, which sets closed; no call closes a
\* closed channel, and once a call has returned the connection is closed.
C28_CloseOnce ==
    /\ cFault # "close of closed channel"
    /\ chCloses.CloseCh <= 1
    /\ chCloses.SendCh <= 1
    /\ chClosed.CloseCh = cclosed
    /\ chClosed.SendCh = cclosed
    /\ (\E c \in CloseCallers : closeCall[c] = "returned")
           => /\ cclosed
              /\ chCloses = [CloseCh |-> 1, SendCh |-> 1]

\* Three calls of Close have returned, one of them the write pump's.
C28_Witness ==
    /\ \A c \in CloseCallers : closeCall[c] = "returned"
    /\ chCloses = [CloseCh |-> 1, SendCh |-> 1]
    /\ cFault = "none"

\* ---------------------------------------------------------------- C29
\* C29: a Connect that fails with an invalid, reserved or taken subdomain or
\* with an authentication failure ends the client with that error; any
\* other failed Connect is followed by the wait of 3 s and a new attempt,
\* unless it is the fifth failure in a row, which ends the client with an
\* error; there are never more than five failures in a row, and no Connect
\* after the client has ended.
C29_RetryPolicy ==
    [][/\ \A e \in ConnectErrors :
              Connect(e)
                  => /\ cli'.fails <= 5
                     /\ IF e.text \in {"subdomain is already taken",
                                       "subdomain is reserved",
                                       "invalid subdomain format",
                                       "Invalid authentication token"}
                        THEN /\ cli'.pc = "exit"
                             /\ cli'.ret = "failed to connect: " \o e.text
                        ELSE IF cli'.fails = 5
                        THEN cli'.pc = "exit" /\ cli'.ret \notin {"none", "nil"}
                        ELSE cli'.pc = "wait"
       /\ RetryTimer => cli'.delay = 3
       /\ cli.pc = "exit" => cli' = cli]_vars

\* ---------------------------------------------------------------- C30
\* C30: a Submit that has passed its tests ends at its select, whatever the
\* state of the queue: with "true" exactly when it has put the job at the
\* end of jobQueue, and with "false" and the job started on a goroutine of
\* its own when the queue is full; a Submit on a closed pool ends with
\* "false" and the pool never runs its job.
C30_SubmitOutcomes ==
    [][\A u \in Submitters :
          /\ SubmitSelect(u)
                 => /\ wp'.submit[u].pc = "idle"
                    /\ wp'.submit[u].ret = "true"
                           <=> wp'.jobQueue = Append(wp.jobQueue, wp.submit[u].job)
                    /\ wp'.submit[u].ret # "true"
                           => /\ wp'.submit[u].ret = "false"
                              /\ Len(wp.jobQueue) = JobQueueSize
                              /\ wp'.jobQueue = wp.jobQueue
                              /\ wp.submit[u].job \in wp'.spawned
          /\ (\E isNil \in BOOLEAN : SubmitCheck(u, isNil)) /\ wp.closed
                 => /\ wp'.submit[u].pc = "idle"
                    /\ wp'.submit[u].ret = "false"
                    /\ wp'.jobQueue = wp.jobQueue
                    /\ wp'.spawned = wp.spawned]_vars

\* ---------------------------------------------------------------- C31
\* C31: when a call of Close has returned, every job that was put in
\* jobQueue has been run by a worker, the worker has ended, and jobQueue has
\* been closed exactly once; it is never closed a second time.
C31_CloseWaits ==
    /\ wp.queueCloses <= 1
    /\ \A c \in PoolClosers :
           wp.close[c] = "returned"
               => /\ wp.worker = "done"
                  /\ wp.jobQueue = <<>>
                  /\ wp.queued \subseteq wp.ranByPool
                  /\ wp.queueCloses = 1

\* Both calls of Close have returned and the pool had accepted two jobs.
C31_Witness ==
    /\ \A c \in PoolClosers : wp.close[c] = "returned"
    /\ Cardinality(wp.queued) >= 2
    /\ wp.queued \subseteq wp.ranByPool

\* ---------------------------------------------------------------- C34
\* C34: no accepted connection is handled by handleConnection more than
\* once, and the counter of the listener's WaitGroup is never negative.
C34_HandledOnce ==
    /\ \A j \in users.accepted : Executions(j) <= 1
    /\ WgCounter >= 0

\* ---------------------------------------------------------------- C38
\* C38: Submit never reaches its send on jobQueue after jobQueue has been
\* closed.
C38_NoSendAfterClose ==
    [][\A u \in Submitters : SubmitSelect(u) => ~wp.queueClosed]_vars

\* ---------------------------------------------------------------- C39
\* C39: a job passed to SubmitWait is never executed twice, and when
\* SubmitWait has returned the job has been executed exactly once.
C39_RunsOnce ==
    /\ \A u \in Submitters, k \in 1..MaxSubmits : Executions(<<u, k>>) <= 1
    /\ \A j \in users.returned : Executions(j) = 1

\* ---------------------------------------------------------------- C32
\* C32: ValidateSubdomain(s) is true exactly when s has 3 to 63 characters,
\* each a lower-case letter, a digit or a hyphen, the first and the last not
\* a hyphen; every generated label has 6 or 8 characters, all lower-case
\* letters or digits, and is accepted by ValidateSubdomain.
C32_ValidateExact ==
    /\ label.fn = "ValidateSubdomain"
           => (label.ok <=> /\ Len(label.arg) >= 3
                            /\ Len(label.arg) <= 63
                            /\ \A i \in 1..Len(label.arg) :
                                   label.arg[i] \in AlnumChars \cup {"-"}
                            /\ label.arg[1] # "-"
                            /\ label.arg[Len(label.arg)] # "-")
    /\ label.fn = "GenerateSubdomain"
           => /\ Len(label.arg) \in {6, 8}
              /\ \A i \in 1..Len(label.arg) : label.arg[i] \in AlnumChars
              /\ ValidateSubdomain(label.arg)

\* A label of 63 characters with a hyphen inside was accepted.
C32_Witness ==
    /\ label.fn = "ValidateSubdomain"
    /\ label.ok
    /\ Len(label.arg) = 63
    /\ \E i \in 2..62 : label.arg[i] = "-"

\* ---------------------------------------------------------------- C35
\* C35: the keys of m.tunnels are exactly the subdomains marked in m.used,
\* and the connection stored under a key carries that key as its Subdomain.
C35_MapsAgree ==
    /\ DOMAIN tunnels = used
    /\ \A s \in DOMAIN tunnels : conns[tunnels[s]].Subdomain = s

\* CleanupStale has removed a tunnel and left another one registered.
C35_Witness ==
    /\ regResult.op = "CleanupStale"
    /\ regResult.conn >= 1
    /\ DOMAIN tunnels # {}
    /\ DOMAIN tunnels = used

\* ---------------------------------------------------------------- C36
\* C36: once a write error is latched the writer calls WriteFrame on conn
\* for no further frame, neither of the batch being flushed nor of a later
\* one.
C36_NoWriteAfterLatch == ~failures.late

\* ---------------------------------------------------------------- C33
\* C33: at most one goroutine is inside a write of a frame to conn at a
\* time, and on conn the parts of a frame follow one another with nothing
\* of another frame between them.
C33_NoInterleaving ==
    /\ Cardinality({t \in PlainTasks : pw.job[t].frames # <<>>}) <= 1
    /\ ~pw.torn

\* ---------------------------------------------------------------- C37
\* C37: Send never reaches its send on SendCh after SendCh has been closed.
C37_NoSendAfterClose ==
    [][\A s \in SendCallers : SendProceed(s) => ~chClosed.SendCh]_vars

\* ---------------------------------------------------------------- C40
\* C40: when the connection has been lost maxReconnectAttempts times, each
\* time after a Connect that succeeded, the client has ended with
\* "connection lost after 5 reconnect attempts".
C40_LossesBounded ==
    cli.losses >= maxReconnectAttempts
        => /\ cli.pc = "exit"
           /\ cli.ret = "connection lost after 5 reconnect attempts"

====
